---- MODULE Spec2Model ----
(***************************************************************************)
(* Model of the real-time session client of hakuhyo                        *)
(* (src/src/discord/gateway.rs, src/src/discord/models.rs).                *)
(*                                                                         *)
(* GatewayClient::run is two activities: the main task (wait_for_hello,    *)
(* send_identify, then the receive loop that calls handle_message) and the *)
(* spawned heartbeat_loop task.  They share the last_sequence cell.        *)
(***************************************************************************)
EXTENDS Integers, Sequences, FiniteSets, TLC

\* ------------------------------------------------------------------------
\* Bounds of the model
\* ------------------------------------------------------------------------
\* number of items the inbound stream yields in one run
MaxFrames == 3
\* time, in heartbeat-timer units, that may elapse after the ticker is built
MaxTime == 2
\* number of items the handshake socket yields in one attempt
MaxAuthFrames == 3

\* ------------------------------------------------------------------------
\* Program constants (models.rs, mod opcodes)
\* ------------------------------------------------------------------------
DISPATCH == 0
HEARTBEAT == 1
IDENTIFY == 2
HELLO == 10
HEARTBEAT_ACK == 11
\* an opcode the client has no arm for (the server's Reconnect)
RECONNECT == 7
\* largest value of the u8 field GatewayPayload::op
U8Max == 255

\* ------------------------------------------------------------------------
\* Rust Option<T>: None is the empty tuple, Some(v) the one-element tuple
\* ------------------------------------------------------------------------
None == << >>
Some(v) == << v >>
IsSome(o) == o # None
Unwrap(o) == o[1]

\* serde_json::Value::get: the field of a JSON object, None when absent
Get(obj, key) == IF key \in DOMAIN obj THEN Some(obj[key]) ELSE None

\* ------------------------------------------------------------------------
\* JSON values written by json!() for an Option<u64>: null or a number
\* ------------------------------------------------------------------------
JsonNull == [ty |-> "null"]
JsonNumber(n) == [ty |-> "number", n |-> n]
OptionToJson(o) == IF IsSome(o) THEN JsonNumber(Unwrap(o)) ELSE JsonNull

\* ------------------------------------------------------------------------
\* Inbound payloads (the "d" objects the server may send)
\* ------------------------------------------------------------------------
UserFull == [id |-> "u1", username |-> "neko", discriminator |-> "0"]
UserBad == [id |-> "u1"]

ReadyA == [session_id |-> "sessA", user |-> UserFull]
ReadyB == [session_id |-> "sessB", user |-> UserFull]
ReadyNoUser == [session_id |-> "sessB"]
ReadyBadUser == [session_id |-> "sessB", user |-> UserBad]
ReadyNoSession == [user |-> UserFull]

MsgFull ==
    [id |-> "m1", channel_id |-> "c1", author |-> UserFull,
     content |-> "hi", timestamp |-> "t0"]
\* the frame of the spec's example: MESSAGE_CREATE without author
MsgNoAuthor == [channel_id |-> "c1"]
MsgRef == [id |-> "m1", channel_id |-> "c1"]

ChannelText == [id |-> "c1", type |-> 0]
ChannelVoice == [id |-> "c2", type |-> 2]
GuildFull ==
    [id |-> "g1", name |-> "guild", owner_id |-> "u1",
     channels |-> << ChannelText, ChannelVoice >>]
GuildNoChannels == [id |-> "g1", name |-> "guild", owner_id |-> "u1"]

HelloData(n) == [heartbeat_interval |-> n]
\* a Hello whose d lacks heartbeat_interval
HelloBad == [session_id |-> "sessA"]

\* the heartbeat_interval values a Hello carries in the model; 0 is a valid
\* u64 and makes tokio::time::interval panic in the heartbeat task
HelloIntervals == {0, 2, 3}

\* JSON text of an envelope: op is any integer, s and t and d optional
Text(op, s, t, d) == [kind |-> "Text", op |-> op, s |-> s, t |-> t, d |-> d]

HelloFrames ==
    { Text(HELLO, None, None, Some(HelloData(n))) : n \in HelloIntervals }
    \cup { Text(HELLO, None, None, None),
           Text(HELLO, None, None, Some(HelloBad)) }

DispatchFrames ==
    { Text(DISPATCH, Some(1), Some("READY"), Some(ReadyA)),
      Text(DISPATCH, Some(2), Some("READY"), Some(ReadyB)),
      Text(DISPATCH, None, Some("READY"), Some(ReadyNoUser)),
      Text(DISPATCH, Some(1), Some("READY"), Some(ReadyBadUser)),
      Text(DISPATCH, Some(2), Some("READY"), Some(ReadyNoSession)),
      Text(DISPATCH, Some(2), Some("MESSAGE_CREATE"), Some(MsgFull)),
      Text(DISPATCH, Some(1), Some("MESSAGE_CREATE"), Some(MsgNoAuthor)),
      Text(DISPATCH, Some(1), Some("MESSAGE_UPDATE"), Some(MsgFull)),
      Text(DISPATCH, Some(2), Some("MESSAGE_DELETE"), Some(MsgRef)),
      Text(DISPATCH, Some(1), Some("GUILD_CREATE"), Some(GuildFull)),
      Text(DISPATCH, Some(2), Some("GUILD_CREATE"), Some(GuildNoChannels)),
      Text(DISPATCH, Some(2), Some("TYPING_START"), Some(MsgRef)),
      Text(DISPATCH, None, Some("TYPING_START"), Some(MsgRef)),
      Text(DISPATCH, Some(1), None, Some(MsgFull)),
      Text(DISPATCH, Some(2), Some("MESSAGE_CREATE"), None) }

ControlFrames ==
    { Text(HEARTBEAT_ACK, None, None, None),
      Text(HEARTBEAT_ACK, Some(1), None, None),
      Text(RECONNECT, None, None, None) }

\* a text that does not deserialize as GatewayPayload: op is no u8
BadTexts == { Text(0 - 1, Some(2), Some("MESSAGE_CREATE"), Some(MsgFull)) }

TextFrames == HelloFrames \cup DispatchFrames \cup ControlFrames \cup BadTexts

\* what the inbound half of the stream yields: Some(Ok(Text)), Some(Ok(Close)),
\* Some(Ok(other message)), Some(Err(e)), or None at the end of the stream
CloseItem == [kind |-> "Close"]
OtherItem == [kind |-> "Binary"]
ErrItem == [kind |-> "Err"]
EndItem == [kind |-> "End"]
StreamItems == TextFrames \cup {CloseItem, OtherItem, ErrItem, EndItem}

\* ------------------------------------------------------------------------
\* Wire codec (serde derives of models.rs)
\* ------------------------------------------------------------------------
\* serde_json::from_str::<GatewayPayload>: op must be a u8, s an absent or
\* unsigned number; None stands for the Err of the parse
ParsePayload(item) ==
    IF /\ item.op \in 0..U8Max
       /\ (IsSome(item.s) => Unwrap(item.s) >= 0)
    THEN Some([op |-> item.op, d |-> item.d, s |-> item.s, t |-> item.t])
    ELSE None

\* serde_json::from_value::<HelloData>
ParseHelloData(d) ==
    IF "heartbeat_interval" \in DOMAIN d /\ d.heartbeat_interval >= 0
    THEN Some(d.heartbeat_interval)
    ELSE None

\* serde_json::from_value::<User>: id, username, discriminator are required
DecodeUser(u) ==
    IF {"id", "username", "discriminator"} \subseteq DOMAIN u
    THEN Some([id |-> u.id, username |-> u.username,
               discriminator |-> u.discriminator, avatar |-> Get(u, "avatar")])
    ELSE None

\* serde_json::from_value::<Message>: id, channel_id, author, content and
\* timestamp are required, edited_timestamp defaults to None
DecodeMessage(d) ==
    IF /\ {"id", "channel_id", "author", "content", "timestamp"} \subseteq DOMAIN d
       /\ IsSome(DecodeUser(d.author))
    THEN Some([id |-> d.id, channel_id |-> d.channel_id,
               author |-> Unwrap(DecodeUser(d.author)),
               content |-> d.content, timestamp |-> d.timestamp,
               edited_timestamp |-> Get(d, "edited_timestamp")])
    ELSE None

\* serde_json::from_value::<Channel>: id and type are required
DecodeChannel(c) ==
    IF {"id", "type"} \subseteq DOMAIN c /\ c.type \in 0..U8Max
    THEN Some([id |-> c.id, channel_type |-> c.type,
               guild_id |-> Get(c, "guild_id"), name |-> Get(c, "name")])
    ELSE None

\* the channel loop of the GUILD_CREATE arm: decodable channels get the
\* guild's id when they carry none, and only text channels (type 0) are kept
GuildChannels(channels, guild_id) ==
    LET decoded == [i \in 1..Len(channels) |-> DecodeChannel(channels[i])]
        kept == SelectSeq(decoded,
                          LAMBDA c : IsSome(c) /\ Unwrap(c).channel_type = 0)
    IN [i \in 1..Len(kept) |->
          LET ch == Unwrap(kept[i])
          IN IF IsSome(ch.guild_id) THEN ch
             ELSE [ch EXCEPT !.guild_id = Some(guild_id)]]

\* ------------------------------------------------------------------------
\* The log sink (main.rs, init_logger): records at or above the level filter
\* are appended to hakuhyo.log.  A record is its level, its format string
\* and the value formatted into it: num (a number), str (a string), json (a
\* serialized outbound value) or text (an inbound item).
\* ------------------------------------------------------------------------
LevelRank(level) ==
    CASE level = "error" -> 1
      [] level = "warn" -> 2
      [] level = "info" -> 3
      [] level = "debug" -> 4
      [] level = "trace" -> 5

\* .filter_level(LevelFilter::Debug)
LevelFilter == "debug"

LogLine(level, msg) == [level |-> level, msg |-> msg]
LogNum(level, msg, n) == [level |-> level, msg |-> msg, num |-> n]
LogStr(level, msg, str) == [level |-> level, msg |-> msg, str |-> str]
LogJson(level, msg, json) == [level |-> level, msg |-> msg, json |-> json]
LogText(level, msg, item) == [level |-> level, msg |-> msg, text |-> item]

\* The sink is kept as the records each task wrote, in that task's order
\* (the file holds an interleaving of the two): main is the task that runs
\* the handshake and GatewayClient::run, heartbeat the spawned heartbeat_loop.
NoLog == [main |-> << >>, heartbeat |-> << >>]

\* the lines that pass the level filter
Filtered(lines) ==
    SelectSeq(lines, LAMBDA l : LevelRank(l.level) <= LevelRank(LevelFilter))

\* the sink after the main task logged the lines
Write(sink, lines) == [sink EXCEPT !.main = @ \o Filtered(lines)]

\* the sink after the heartbeat task logged the lines
WriteHeartbeat(sink, lines) == [sink EXCEPT !.heartbeat = @ \o Filtered(lines)]

\* ------------------------------------------------------------------------
\* GatewayClient::handle_message
\* ------------------------------------------------------------------------
\* The result of one call: the returned Option<GatewayEvent> and the values
\* the call leaves in *session_id and in the last_sequence cell.
Outcome(event, sid, seq) ==
    [event |-> event, session_id |-> sid, last_sequence |-> seq]

\* the "READY" arm
HandleReady(data, sid, seq) ==
    IF ~ IsSome(Get(data, "session_id")) THEN Outcome(None, sid, seq)
    ELSE IF ~ ("user" \in DOMAIN data /\ IsSome(DecodeUser(data.user)))
    THEN Outcome(None, Some(data.session_id), seq)
    ELSE Outcome(Some([type |-> "Ready", data |-> data]),
                 Some(data.session_id), seq)

\* the "GUILD_CREATE" arm
HandleGuildCreate(data, sid, seq) ==
    IF {"id", "name", "owner_id", "channels"} \subseteq DOMAIN data
    THEN Outcome(Some([type |-> "GuildCreate",
                       guild |-> [id |-> data.id, name |-> data.name,
                                  icon |-> Get(data, "icon"),
                                  owner_id |-> data.owner_id],
                       channels |-> GuildChannels(data.channels, data.id)]),
                 sid, seq)
    ELSE Outcome(None, sid, seq)

\* mutant of HandleMessageEvent: every decoded message is reported as created
HandleMessageEventAsCreate(variant, data, sid, seq) ==
    IF IsSome(DecodeMessage(data))
    THEN Outcome(Some([type |-> "MessageCreate",
                       message |-> Unwrap(DecodeMessage(data))]), sid, seq)
    ELSE Outcome(None, sid, seq)

\* the "MESSAGE_CREATE" and "MESSAGE_UPDATE" arms
HandleMessageEvent(variant, data, sid, seq) ==
    IF IsSome(DecodeMessage(data))
    THEN Outcome(Some([type |-> variant, message |-> Unwrap(DecodeMessage(data))]),
                 sid, seq)
    ELSE Outcome(None, sid, seq)

\* the "MESSAGE_DELETE" arm
HandleMessageDelete(data, sid, seq) ==
    IF {"id", "channel_id"} \subseteq DOMAIN data
    THEN Outcome(Some([type |-> "MessageDelete", id |-> data.id,
                       channel_id |-> data.channel_id]), sid, seq)
    ELSE Outcome(None, sid, seq)

\* mutant of HandleOp: the catch-all arms hand the raw frame to the consumer
HandleOpEmitsUnknown(payload, sid, seq) ==
    IF payload.op = DISPATCH /\ IsSome(payload.t) /\ IsSome(payload.d)
       /\ Unwrap(payload.t) = "READY"
    THEN HandleReady(Unwrap(payload.d), sid, seq)
    ELSE Outcome(Some([type |-> "Unknown", op |-> payload.op]), sid, seq)

\* match payload.op { DISPATCH => match event_type {...}, ... }
HandleOp(payload, sid, seq) ==
    IF payload.op = DISPATCH
    THEN IF ~ IsSome(payload.t) \/ ~ IsSome(payload.d)
         THEN Outcome(None, sid, seq)
         ELSE LET event_type == Unwrap(payload.t)
                  data == Unwrap(payload.d)
              IN CASE event_type = "READY" -> HandleReady(data, sid, seq)
                   [] event_type = "GUILD_CREATE" ->
                        HandleGuildCreate(data, sid, seq)
                   [] event_type = "MESSAGE_CREATE" ->
                        HandleMessageEvent("MessageCreate", data, sid, seq)
                   [] event_type = "MESSAGE_UPDATE" ->
                        HandleMessageEvent("MessageUpdate", data, sid, seq)
                   [] event_type = "MESSAGE_DELETE" ->
                        HandleMessageDelete(data, sid, seq)
                   [] OTHER -> Outcome(None, sid, seq)
    ELSE Outcome(None, sid, seq)

\* mutant of UpdateSequence: keeps the largest sequence instead of the latest
UpdateSequenceMax(payload, seq) ==
    IF IsSome(payload.s) /\ (IsSome(seq) => Unwrap(payload.s) > Unwrap(seq))
    THEN payload.s
    ELSE seq

\* if let Some(seq) = payload.s { *last_sequence.write().await = Some(seq) }
UpdateSequence(payload, seq) ==
    IF IsSome(payload.s) THEN payload.s ELSE seq

handle_message(item, sid, seq) ==
    IF ~ IsSome(ParsePayload(item)) THEN Outcome(None, sid, seq)
    ELSE LET payload == Unwrap(ParsePayload(item))
         IN HandleOp(payload, sid, UpdateSequence(payload, seq))

\* the records handle_message logs for one text: the user of a READY that
\* decodes, the guild of a GUILD_CREATE and the number of its text channels
\* (no READY of the model carries a guilds array)
HandleMessageLogs(item) ==
    IF ~ IsSome(ParsePayload(item)) THEN << >>
    ELSE LET payload == Unwrap(ParsePayload(item))
         IN IF payload.op # DISPATCH \/ ~ IsSome(payload.t) \/ ~ IsSome(payload.d)
            THEN << >>
            ELSE LET event_type == Unwrap(payload.t)
                     data == Unwrap(payload.d)
                 IN CASE event_type = "READY" ->
                           IF IsSome(HandleReady(data, None, None).event)
                           THEN << LogStr("info", "Gateway Ready! User: {}",
                                          data.user.username) >>
                           ELSE << >>
                      [] event_type = "GUILD_CREATE" ->
                           IF {"id", "name", "owner_id"} \subseteq DOMAIN data
                           THEN << LogStr("info", "GUILD_CREATE: {} ({})", data.name) >>
                                \o IF "channels" \in DOMAIN data
                                   THEN << LogNum("info",
                                       "GUILD_CREATE: loaded {} text channels for guild: {}",
                                       Len(GuildChannels(data.channels, data.id))) >>
                                   ELSE << >>
                           ELSE << >>
                      [] OTHER -> << >>

\* ------------------------------------------------------------------------
\* State
\* ------------------------------------------------------------------------
VARIABLES
    pc,                 \* where GatewayClient::run is
    heartbeat_interval, \* the local of run set from wait_for_hello
    last_sequence,      \* Arc<RwLock<Option<u64>>>
    session_id,         \* Option<String>
    received,           \* what the inbound stream has yielded, in order
    events,             \* the calls of event_handler, in order
    sent,               \* the frames written to the socket, in order
    hb_pc,              \* where the spawned heartbeat_loop task is
    hb_seq,             \* the local seq of heartbeat_loop
    ticker,             \* the tokio Interval of heartbeat_loop
    elapsed,            \* time elapsed since the ticker was built
    log,                \* the records written to the log sink
    \* the RwLock around last_sequence, for the lock-level specification
    lock,               \* who holds the lock and who waits for it
    handling,           \* the payload handle_message is storing the s of
    \* the handshake (auth.rs)
    auth_pc,            \* where get_or_authenticate_token is
    store,              \* the token file: None or the stored credential
    saved,              \* the credentials passed to save_token, in order
    qr_result,          \* what authenticate_with_qr returned
    auth_result,        \* what get_or_authenticate_token returned
    heartbeat_timer,    \* the tokio Interval of the handshake
    auth_elapsed,       \* time elapsed since heartbeat_timer was built
    private_key,        \* the RSA private key of this attempt
    auth_received,      \* what the handshake socket has yielded, in order
    auth_sent,          \* the frames written to the handshake socket
    displayed,          \* the pairing codes shown on the terminal
    exchange_calls,     \* the tickets posted to the exchange endpoint
    token_response,     \* the response of the exchange endpoint
    \* run_app (main.rs)
    forwarded,          \* the calls of event_handler whose spawned task has sent
    event_rx,           \* the mpsc channel: the events sent and not yet received
    app,                \* AppState
    updates,            \* the calls of AppState::update and what they returned
    main_pc,            \* where the main loop of run_app is
    ui_pc,              \* where the task that reads the keys is
    rest,               \* the REST tasks the main loop spawned, not yet ended
    server              \* the messages the server holds, oldest first

gatewayVars ==
    << pc, heartbeat_interval, last_sequence, session_id, received, events,
       sent, hb_pc, hb_seq, ticker, elapsed >>

lockVars == << lock, handling >>

authVars ==
    << auth_pc, store, saved, qr_result, auth_result, heartbeat_timer,
       auth_elapsed, private_key, auth_received, auth_sent, displayed,
       exchange_calls, token_response >>

appVars == << forwarded, event_rx, app, updates, main_pc, ui_pc, rest, server >>

vars == << gatewayVars, log, lockVars, authVars, appVars >>

mainVars == << pc, heartbeat_interval, last_sequence, session_id, received, events >>
hbVars == << hb_pc, hb_seq, ticker >>

\* the lock is free and nobody waits for it
LockFree == [holders |-> {}, mode |-> "none", waiters |-> << >>]

\* the state in which the lock-level view of the session is not in use
LockIdle == lock = LockFree /\ handling = None

\* the channels the messages of the model belong to
ChannelIds == {"c1", "c2", "c3"}

\* AppState::new(): the HashMaps of guilds, channels and users are sets of
\* records with distinct ids, messages maps a channel id to None (no entry)
\* or to its list of messages
AppNew ==
    [guilds |-> {}, channels |-> {}, messages |-> [c \in ChannelIds |-> None],
     users |-> {}, current_user |-> None, connected |-> FALSE,
     selected_channel |-> None, channel_list_state |-> None,
     input_mode |-> "Normal", input_buffer |-> << >>,
     favorites |-> {}, search_mode |-> FALSE, search_buffer |-> << >>]

\* the state in which run_app has not begun
AppIdle ==
    /\ forwarded = {}
    /\ event_rx = << >>
    /\ app = AppNew
    /\ updates = << >>
    /\ main_pc = "Running"
    /\ ui_pc = "Reading"
    /\ rest = << >>
    /\ server = << >>

\* the state in which the handshake is not running
AuthIdle ==
    /\ auth_pc = "Idle"
    /\ store = None
    /\ saved = << >>
    /\ qr_result = None
    /\ auth_result = None
    /\ heartbeat_timer = None
    /\ auth_elapsed = 0
    /\ private_key = None
    /\ auth_received = << >>
    /\ auth_sent = << >>
    /\ displayed = << >>
    /\ exchange_calls = << >>
    /\ token_response = None

\* GatewayClient::connect: last_sequence None, session_id None, nothing
\* exchanged yet, the heartbeat task not spawned
Init ==
    /\ pc = "AwaitingHello"
    /\ heartbeat_interval = None
    /\ last_sequence = None
    /\ session_id = None
    /\ received = << >>
    /\ events = << >>
    /\ sent = << >>
    /\ hb_pc = "NotSpawned"
    /\ hb_seq = None
    /\ ticker = None
    /\ elapsed = 0
    /\ log = Write(NoLog, << LogLine("info", "Connecting to Gateway: {}"),
                            LogLine("info", "Connected to Gateway") >>)
    /\ LockIdle
    /\ AuthIdle
    /\ AppIdle

\* the frames the client writes
\* mutant of HeartbeatFrame: an absent sequence is written as 0
HeartbeatFrameZero(seq) ==
    [op |-> HEARTBEAT, d |-> JsonNumber(IF IsSome(seq) THEN Unwrap(seq) ELSE 0)]

IdentifyFrame == [op |-> IDENTIFY, d |-> [token |-> "credential"]]

\* mutant of HeartbeatFrame: the heartbeat is written as a whole envelope,
\* with s and t null
HeartbeatFrameEnvelope(seq) ==
    [op |-> HEARTBEAT, d |-> OptionToJson(seq), s |-> JsonNull, t |-> JsonNull]

HeartbeatFrame(seq) == [op |-> HEARTBEAT, d |-> OptionToJson(seq)]

\* ------------------------------------------------------------------------
\* GatewayClient::wait_for_hello
\* ------------------------------------------------------------------------
\* mutant of HelloStep: an opcode other than Hello is an error
HelloStepStrict(item) ==
    IF item.kind = "End" THEN [to |-> "Err", interval |-> None]
    ELSE IF item.kind # "Text" THEN [to |-> "Continue", interval |-> None]
    ELSE IF ~ IsSome(ParsePayload(item)) THEN [to |-> "Err", interval |-> None]
    ELSE LET payload == Unwrap(ParsePayload(item))
         IN IF payload.op # HELLO \/ ~ IsSome(payload.d)
            THEN [to |-> "Err", interval |-> None]
            ELSE IF ~ IsSome(ParseHelloData(Unwrap(payload.d)))
            THEN [to |-> "Err", interval |-> None]
            ELSE [to |-> "Ok", interval |-> ParseHelloData(Unwrap(payload.d))]

\* What one item of the stream does to wait_for_hello: "Continue" (the loop
\* goes on), "Err" (the function returns an error) or the returned interval.
HelloStep(item) ==
    IF item.kind = "End" THEN [to |-> "Err", interval |-> None]
    ELSE IF item.kind # "Text" THEN [to |-> "Continue", interval |-> None]
    ELSE IF ~ IsSome(ParsePayload(item)) THEN [to |-> "Err", interval |-> None]
    ELSE LET payload == Unwrap(ParsePayload(item))
         IN IF payload.op # HELLO THEN [to |-> "Continue", interval |-> None]
            ELSE IF ~ IsSome(payload.d) THEN [to |-> "Err", interval |-> None]
            ELSE IF ~ IsSome(ParseHelloData(Unwrap(payload.d)))
            THEN [to |-> "Err", interval |-> None]
            ELSE [to |-> "Ok", interval |-> ParseHelloData(Unwrap(payload.d))]

\* mutant of WaitForHello: the heartbeat task is spawned as soon as Hello is
\* in, before Identify is sent
WaitForHelloSpawnsEarly(item) ==
    /\ pc = "AwaitingHello"
    /\ Len(received) < MaxFrames
    /\ received' = Append(received, item)
    /\ LET step == HelloStep(item)
       IN /\ pc' = CASE step.to = "Ok" -> "Identifying"
                     [] step.to = "Err" -> "ReturnedErr"
                     [] OTHER -> "AwaitingHello"
          /\ heartbeat_interval' = step.interval
          /\ hb_pc' = IF step.to = "Ok" THEN "Start" ELSE hb_pc
    /\ UNCHANGED << last_sequence, session_id, events, sent, elapsed, hb_seq, ticker >>
    /\ log' = Write(log, IF HelloStep(item).to = "Ok"
                         THEN << LogNum("info",
                                   "Received Hello, heartbeat interval: {}ms",
                                   Unwrap(HelloStep(item).interval)) >>
                         ELSE << >>)
    /\ UNCHANGED << lockVars, authVars, appVars >>

\* one iteration of the loop of wait_for_hello, and the ? of run on its result
WaitForHello(item) ==
    /\ pc = "AwaitingHello"
    /\ Len(received) < MaxFrames
    /\ received' = Append(received, item)
    /\ LET step == HelloStep(item)
       IN /\ pc' = CASE step.to = "Ok" -> "Identifying"
                     [] step.to = "Err" -> "ReturnedErr"
                     [] OTHER -> "AwaitingHello"
          /\ heartbeat_interval' = step.interval
    /\ UNCHANGED << last_sequence, session_id, events, sent, elapsed >>
    /\ UNCHANGED hbVars
    /\ log' = Write(log, IF HelloStep(item).to = "Ok"
                         THEN << LogNum("info",
                                   "Received Hello, heartbeat interval: {}ms",
                                   Unwrap(HelloStep(item).interval)) >>
                         ELSE << >>)
    /\ UNCHANGED << lockVars, authVars, appVars >>

\* ------------------------------------------------------------------------
\* GatewayClient::send_identify, then the spawn of the heartbeat task
\* ------------------------------------------------------------------------
\* what send_identify logs before it writes the frame: the serialized
\* payload, token included, at debug level
IdentifyLogs ==
    << LogLine("info", "Sending Identify for user account"),
       LogJson("debug", "Identify payload: {}", IdentifyFrame) >>

SendIdentifyOk ==
    /\ pc = "Identifying"
    /\ sent' = Append(sent, IdentifyFrame)
    /\ pc' = "Connected"
    /\ hb_pc' = "Start"
    /\ UNCHANGED << heartbeat_interval, last_sequence, session_id, received,
                    events, hb_seq, ticker, elapsed >>
    /\ log' = Write(log, IdentifyLogs \o << LogLine("info", "Sent Identify") >>)
    /\ UNCHANGED << lockVars, authVars, appVars >>

\* the send fails: run returns the error, nothing was spawned
SendIdentifyErr ==
    /\ pc = "Identifying"
    /\ pc' = "ReturnedErr"
    /\ UNCHANGED << heartbeat_interval, last_sequence, session_id, received,
                    events, sent, elapsed >>
    /\ UNCHANGED hbVars
    /\ log' = Write(log, IdentifyLogs)
    /\ UNCHANGED << lockVars, authVars, appVars >>

\* ------------------------------------------------------------------------
\* The receive loop of GatewayClient::run
\* ------------------------------------------------------------------------
\* mutant of LoopContinues: a text that does not parse ends the loop
LoopContinuesStrict(item) ==
    \/ item.kind = "Binary"
    \/ item.kind = "Text" /\ IsSome(ParsePayload(item))

\* mutant of LoopContinues: a read error is logged and the loop goes on
LoopContinuesOnError(item) == item.kind \in {"Text", "Binary", "Err"}

\* whether the loop goes on after the item
LoopContinues(item) == item.kind \in {"Text", "Binary"}

\* mutant of AfterLoop: a read error is handed to the caller
AfterLoopReportsError(item) ==
    IF item.kind = "Err" THEN "ReturnedErr" ELSE "ReturnedOk"

\* the Ok(()) after the loop, whatever item ended it
AfterLoop(item) == "ReturnedOk"

\* what one iteration of the loop logs
DispatchLogs(item) ==
    CASE item.kind = "Text" ->
            << LogText("debug", "Received: {}", item) >> \o HandleMessageLogs(item)
      [] item.kind = "Close" -> << LogLine("warn", "Gateway connection closed: {:?}") >>
      [] item.kind = "Err" -> << LogLine("error", "WebSocket error: {}") >>
      [] OTHER -> << >>

Dispatch(item) ==
    /\ pc = "Connected"
    /\ Len(received) < MaxFrames
    /\ received' = Append(received, item)
    /\ IF item.kind = "Text"
       THEN LET out == handle_message(item, session_id, last_sequence)
            IN /\ session_id' = out.session_id
               /\ last_sequence' = out.last_sequence
               /\ events' = IF IsSome(out.event)
                            THEN Append(events, Unwrap(out.event))
                            ELSE events
       ELSE UNCHANGED << session_id, last_sequence, events >>
    /\ pc' = IF LoopContinues(item) THEN "Connected" ELSE AfterLoop(item)
    /\ UNCHANGED << heartbeat_interval, sent, elapsed >>
    /\ UNCHANGED hbVars
    /\ log' = Write(log, DispatchLogs(item))
    /\ UNCHANGED << lockVars, authVars, appVars >>

\* ------------------------------------------------------------------------
\* GatewayClient::heartbeat_loop (the spawned task)
\* ------------------------------------------------------------------------
\* mutant of NewTicker: a fixed period instead of the one Hello carried
NewTickerFixed(interval_ms) == Some([deadline |-> 0, period |-> 1])

\* interval(Duration::from_millis(interval_ms)): tokio panics on a zero
\* period; otherwise the first tick is due at once
NewTicker(interval_ms) == Some([deadline |-> 0, period |-> interval_ms])

HbStart ==
    /\ hb_pc = "Start"
    /\ IF Unwrap(heartbeat_interval) = 0
       THEN hb_pc' = "Panicked" /\ ticker' = None
       ELSE hb_pc' = "Tick" /\ ticker' = NewTicker(Unwrap(heartbeat_interval))
    /\ elapsed' = 0
    /\ UNCHANGED << hb_seq, sent, log >>
    /\ UNCHANGED mainVars
    /\ UNCHANGED << lockVars, authVars, appVars >>

\* ticker.tick().await completes once its deadline is reached and moves the
\* deadline one period on
TickDue(t, now) == now >= t.deadline
AfterTick(t) == [t EXCEPT !.deadline = t.deadline + t.period]

\* ticker.tick().await; let seq = *last_sequence.read().await;
HbTick ==
    /\ hb_pc = "Tick"
    /\ TickDue(Unwrap(ticker), elapsed)
    /\ ticker' = Some(AfterTick(Unwrap(ticker)))
    /\ hb_seq' = last_sequence
    /\ hb_pc' = "Send"
    /\ UNCHANGED << sent, elapsed, log >>
    /\ UNCHANGED mainVars
    /\ UNCHANGED << lockVars, authVars, appVars >>

\* write.send(heartbeat) succeeds
HbSendOk ==
    /\ hb_pc = "Send"
    /\ sent' = Append(sent, HeartbeatFrame(hb_seq))
    /\ hb_pc' = "Tick"
    /\ UNCHANGED << hb_seq, ticker, elapsed, log >>
    /\ UNCHANGED mainVars
    /\ UNCHANGED << lockVars, authVars, appVars >>

\* write.send(heartbeat) fails: the loop breaks and the task ends
HbSendErr ==
    /\ hb_pc = "Send"
    /\ hb_pc' = "Stopped"
    /\ ticker' = None
    /\ UNCHANGED << hb_seq, sent, elapsed >>
    /\ UNCHANGED mainVars
    /\ log' = WriteHeartbeat(log, << LogLine("error", "Failed to send heartbeat") >>)
    /\ UNCHANGED << lockVars, authVars, appVars >>

\* time passes
ClockTick ==
    /\ IsSome(ticker)
    /\ elapsed < MaxTime
    /\ elapsed' = elapsed + 1
    /\ UNCHANGED << sent, log >>
    /\ UNCHANGED hbVars
    /\ UNCHANGED mainVars
    /\ UNCHANGED << lockVars, authVars, appVars >>

Next ==
    \/ \E item \in StreamItems : WaitForHello(item)
    \/ SendIdentifyOk
    \/ SendIdentifyErr
    \/ \E item \in StreamItems : Dispatch(item)
    \/ HbStart
    \/ HbTick
    \/ HbSendOk
    \/ HbSendErr
    \/ ClockTick

Spec == Init /\ [][Next]_vars

\* ========================================================================
\* The lock around last_sequence (tokio::sync::RwLock<Option<u64>>), seen at
\* the level of its acquisitions: the Connected phase of run, with the read
\* of heartbeat_loop and the write of handle_message split into acquiring
\* the lock, being granted it, and the access that ends with the drop of
\* the guard.
\* ========================================================================
Tasks == {"heartbeat", "dispatch"}

\* a request is compatible with the holders: readers share, a writer is alone
Compatible(l, mode) ==
    \/ l.mode = "none"
    \/ l.mode = "read" /\ mode = "read"

\* RwLock::read / RwLock::write, first poll: the lock is taken when it is
\* compatible and nobody is queued (the queue is FIFO, a reader does not
\* overtake a waiting writer); otherwise the task joins the queue
Acquire(l, task, mode) ==
    IF l.waiters = << >> /\ Compatible(l, mode)
    THEN [l EXCEPT !.holders = @ \cup {task}, !.mode = mode]
    ELSE [l EXCEPT !.waiters = Append(@, [task |-> task, mode |-> mode])]

\* the permits a release frees go to the queue, head first
RECURSIVE Grant(_)
Grant(l) ==
    IF l.waiters = << >> \/ ~ Compatible(l, Head(l.waiters).mode) THEN l
    ELSE Grant([holders |-> l.holders \cup {Head(l.waiters).task},
                mode |-> Head(l.waiters).mode,
                waiters |-> Tail(l.waiters)])

\* mutant of Release: the guard is kept, the lock stays held
ReleaseKeepsGuard(l, task) == l

\* the drop of the guard
Release(l, task) ==
    Grant([l EXCEPT !.holders = @ \ {task},
                    !.mode = IF l.holders \ {task} = {} THEN "none" ELSE @])

\* the frames of the lock-level view: with and without s, one that does not
\* parse, and the close of the connection
LockItems ==
    { Text(DISPATCH, Some(1), Some("READY"), Some(ReadyA)),
      Text(DISPATCH, Some(2), Some("MESSAGE_CREATE"), Some(MsgFull)),
      Text(HEARTBEAT_ACK, None, None, None),
      CloseItem }
    \cup BadTexts

\* handle_message reaches last_sequence.write() for this item
NeedsWrite(item) ==
    /\ item.kind = "Text"
    /\ IsSome(ParsePayload(item))
    /\ IsSome(Unwrap(ParsePayload(item)).s)

\* the session right after a Hello with interval 2, a successful Identify and
\* the start of the heartbeat task
LockInit ==
    /\ pc = "Connected"
    /\ heartbeat_interval = Some(2)
    /\ last_sequence = None
    /\ session_id = None
    /\ received = << Text(HELLO, None, None, Some(HelloData(2))) >>
    /\ events = << >>
    /\ sent = << IdentifyFrame >>
    /\ hb_pc = "Tick"
    /\ hb_seq = None
    /\ ticker = NewTicker(2)
    /\ elapsed = 0
    /\ log = Write(NoLog,
                   << LogLine("info", "Connecting to Gateway: {}"),
                      LogLine("info", "Connected to Gateway"),
                      LogNum("info", "Received Hello, heartbeat interval: {}ms", 2) >>
                   \o IdentifyLogs \o << LogLine("info", "Sent Identify") >>)
    /\ LockIdle
    /\ AuthIdle
    /\ AppIdle

\* read.next() yields an item; a text with an s goes as far as the first
\* poll of last_sequence.write(), any other item is handled at once
LkReceive(item) ==
    IF NeedsWrite(item)
    THEN /\ pc = "Connected"
         /\ Len(received) < MaxFrames
         /\ received' = Append(received, item)
         /\ log' = Write(log, << LogText("debug", "Received: {}", item) >>)
         /\ handling' = ParsePayload(item)
         /\ lock' = Acquire(lock, "dispatch", "write")
         /\ pc' = IF "dispatch" \in lock'.holders THEN "WriteHeld" ELSE "WriteWait"
         /\ UNCHANGED << heartbeat_interval, last_sequence, session_id, events,
                         sent, elapsed >>
         /\ UNCHANGED hbVars
         /\ UNCHANGED << authVars, appVars >>
    ELSE Dispatch(item)

\* the queued write() is woken once a release has granted it the lock
LkWriteWake ==
    /\ pc = "WriteWait"
    /\ "dispatch" \in lock.holders
    /\ pc' = "WriteHeld"
    /\ UNCHANGED << heartbeat_interval, last_sequence, session_id, received,
                    events, sent, elapsed, log >>
    /\ UNCHANGED hbVars
    /\ UNCHANGED << lockVars, authVars, appVars >>

\* *guard = Some(seq), the guard is dropped at the end of the statement, and
\* the rest of handle_message runs without another await
LkWrite ==
    /\ pc = "WriteHeld"
    /\ LET payload == Unwrap(handling)
           out == HandleOp(payload, session_id,
                           UpdateSequence(payload, last_sequence))
       IN /\ last_sequence' = out.last_sequence
          /\ session_id' = out.session_id
          /\ events' = IF IsSome(out.event)
                       THEN Append(events, Unwrap(out.event))
                       ELSE events
    /\ log' = Write(log, HandleMessageLogs(received[Len(received)]))
    /\ lock' = Release(lock, "dispatch")
    /\ handling' = None
    /\ pc' = "Connected"
    /\ UNCHANGED << heartbeat_interval, received, sent, elapsed >>
    /\ UNCHANGED hbVars
    /\ UNCHANGED << authVars, appVars >>

\* ticker.tick().await completes and last_sequence.read() is polled
LkHbTick ==
    /\ hb_pc = "Tick"
    /\ TickDue(Unwrap(ticker), elapsed)
    /\ ticker' = Some(AfterTick(Unwrap(ticker)))
    /\ lock' = Acquire(lock, "heartbeat", "read")
    /\ hb_pc' = IF "heartbeat" \in lock'.holders THEN "ReadHeld" ELSE "ReadWait"
    /\ UNCHANGED << hb_seq, sent, elapsed, log, handling >>
    /\ UNCHANGED mainVars
    /\ UNCHANGED << authVars, appVars >>

\* the queued read() is woken once a release has granted it the lock
LkHbWake ==
    /\ hb_pc = "ReadWait"
    /\ "heartbeat" \in lock.holders
    /\ hb_pc' = "ReadHeld"
    /\ UNCHANGED << hb_seq, ticker, sent, elapsed, log >>
    /\ UNCHANGED mainVars
    /\ UNCHANGED << lockVars, authVars, appVars >>

\* let seq = *guard; the guard is dropped at the end of the statement
LkHbRead ==
    /\ hb_pc = "ReadHeld"
    /\ hb_seq' = last_sequence
    /\ lock' = Release(lock, "heartbeat")
    /\ hb_pc' = "Send"
    /\ UNCHANGED << ticker, sent, elapsed, log, handling >>
    /\ UNCHANGED mainVars
    /\ UNCHANGED << authVars, appVars >>

LockNext ==
    \/ \E item \in LockItems : LkReceive(item)
    \/ LkWriteWake
    \/ LkWrite
    \/ LkHbTick
    \/ LkHbWake
    \/ LkHbRead
    \/ HbSendOk
    \/ HbSendErr
    \/ ClockTick

LockSpec == LockInit /\ [][LockNext]_vars

\* ========================================================================
\* The pairing handshake (auth.rs): get_or_authenticate_token runs
\* authenticate_with_qr unless a stored credential is accepted.
\* ========================================================================
\* ------------------------------------------------------------------------
\* RSA-OAEP, base64, SHA-256 and UTF-8, as far as the handshake uses them.
\* A ciphertext names the public key it was made for; decryption fails with
\* any other private key.  A base64 text either decodes to a value or does
\* not decode.  Bytes are UTF-8 text or not.
\* ------------------------------------------------------------------------
\* the private key generated in this attempt, and one this client never had
ThisKey == "private-1"
OtherKey == "private-2"

\* RsaPublicKey::from(&private_key)
PublicKey(private) == [public_of |-> private]
Encrypt(public, bytes) == [to |-> public, bytes |-> bytes]

\* mutant of Decrypt: any ciphertext decrypts
DecryptAnyKey(private, cipher) == Some(cipher.bytes)

\* private_key.decrypt(Oaep::new::<Sha256>(), ..): None stands for the Err
Decrypt(private, cipher) ==
    IF cipher.to = PublicKey(private) THEN Some(cipher.bytes) ELSE None

Utf8Bytes(text) == [utf8 |-> TRUE, text |-> text]
BadBytes == [utf8 |-> FALSE, text |-> "?"]
\* String::from_utf8
FromUtf8(bytes) == IF bytes.utf8 THEN Some(bytes.text) ELSE None

B64(value) == [b64 |-> TRUE, of |-> value]
NotB64 == [b64 |-> FALSE]
\* general_purpose::STANDARD.decode
B64Decode(str) == IF str.b64 THEN Some(str.of) ELSE None

\* Sha256 digest and URL_SAFE_NO_PAD.encode
Sha256(bytes) == [sha256 |-> bytes]
B64Url(value) == [b64url |-> value]

NonceBytes == Utf8Bytes("nonce")

\* ------------------------------------------------------------------------
\* What the handshake socket yields: a text that is a JSON object, a text
\* that is not, a message that is no text (its to_string() is no JSON
\* object either), an error, or the end of the stream
\* ------------------------------------------------------------------------
AuthText(obj) == [kind |-> "Text", json |-> TRUE, obj |-> obj]
AuthGarbage == [kind |-> "Text", json |-> FALSE]
AuthClose == [kind |-> "Close", json |-> FALSE]
AuthErrItem == [kind |-> "Err", json |-> FALSE]
AuthEndItem == [kind |-> "End", json |-> FALSE]

\* the heartbeat_interval values a handshake hello carries in the model; 0
\* makes tokio::time::interval panic
AuthIntervals == {0, 1, 2}

AuthHelloItems ==
    { AuthText([op |-> "hello", heartbeat_interval |-> n]) : n \in AuthIntervals }
    \cup { AuthText([op |-> "hello"]),
           AuthText([op |-> "hello", heartbeat_interval |-> 0 - 1]) }

NonceProofItems ==
    { AuthText([op |-> "nonce_proof",
                encrypted_nonce |-> B64(Encrypt(PublicKey(ThisKey), NonceBytes))]),
      AuthText([op |-> "nonce_proof",
                encrypted_nonce |-> B64(Encrypt(PublicKey(OtherKey), NonceBytes))]),
      AuthText([op |-> "nonce_proof", encrypted_nonce |-> NotB64]),
      AuthText([op |-> "nonce_proof"]) }

PendingItems ==
    { AuthText([op |-> "pending_remote_init", fingerprint |-> "fp1"]),
      AuthText([op |-> "pending_remote_init"]),
      AuthText([op |-> "pending_ticket"]),
      AuthText([op |-> "pending_login", ticket |-> "ticket-1"]),
      AuthText([op |-> "pending_login", ticket |-> "ticket-2"]),
      AuthText([op |-> "pending_login"]) }

OtherAuthItems ==
    { AuthText([op |-> "cancel"]),
      AuthText([op |-> "heartbeat_ack"]),
      AuthText([op |-> "ready"]),
      AuthText([heartbeat_interval |-> 2]),
      AuthGarbage, AuthClose, AuthErrItem, AuthEndItem }

AuthItems == AuthHelloItems \cup NonceProofItems \cup PendingItems \cup OtherAuthItems

\* mutant of ParseRemoteAuth: a text that is no envelope is taken for a
\* message with an empty tag
ParseRemoteAuthLenient(item) ==
    IF item.json /\ "op" \in DOMAIN item.obj
    THEN Some([op |-> item.obj.op, data |-> item.obj])
    ELSE Some([op |-> "", data |-> [op |-> ""]])

\* Value::as_u64: a number that is an unsigned integer, or None
AsU64(n) == IF n \in Nat THEN Some(n) ELSE None

\* serde_json::from_str::<RemoteAuthMessage>(&msg.to_string()): a JSON
\* object with an op; the other fields are flattened into data
ParseRemoteAuth(item) ==
    IF item.json /\ "op" \in DOMAIN item.obj
    THEN Some([op |-> item.obj.op, data |-> item.obj])
    ELSE None

\* what the exchange endpoint may answer to the POST of a ticket: no answer
\* (transport error), a body without encrypted_token, or a body with one
ExchangeFailed == [kind |-> "Err", obj |-> [message |-> "timeout"]]
ExchangeBody(obj) == [kind |-> "Body", obj |-> obj]
ExchangeResponses ==
    { ExchangeFailed,
      ExchangeBody([message |-> "401: Unauthorized"]),
      ExchangeBody([encrypted_token |-> NotB64]),
      ExchangeBody([encrypted_token |->
          B64(Encrypt(PublicKey(OtherKey), Utf8Bytes("other-credential")))]),
      ExchangeBody([encrypted_token |-> B64(Encrypt(PublicKey(ThisKey), BadBytes))]),
      ExchangeBody([encrypted_token |->
          B64(Encrypt(PublicKey(ThisKey), Utf8Bytes("")))]),
      ExchangeBody([encrypted_token |->
          B64(Encrypt(PublicKey(ThisKey), Utf8Bytes("credential")))]) }

\* ------------------------------------------------------------------------
\* Result<String>
\* ------------------------------------------------------------------------
AuthOk(token) == [ok |-> TRUE, token |-> token, error |-> ""]
AuthErr(error) == [ok |-> FALSE, token |-> "", error |-> error]

\* ------------------------------------------------------------------------
\* The frames the handshake writes
\* ------------------------------------------------------------------------
InitFrame(private) == [op |-> "init", encoded_public_key |-> B64(PublicKey(private))]
ProofFrame(nonce) == [op |-> "nonce_proof", proof |-> B64Url(Sha256(nonce))]
AuthHeartbeatFrame == [op |-> "heartbeat"]

\* format!("https://discord.com/ra/{}", fingerprint)
QrUrl(fingerprint) == [base |-> "https://discord.com/ra/", fingerprint |-> fingerprint]

\* ------------------------------------------------------------------------
\* The first message: hello
\* ------------------------------------------------------------------------
\* What the first item does: "Err" with the error, "Panic" (a zero period),
\* or "Ok" with the heartbeat interval.
AuthHelloStep(item) ==
    IF item.kind = "End"
    THEN [to |-> "Err", error |-> "No hello message received", interval |-> 0]
    ELSE IF item.kind = "Err"
    THEN [to |-> "Err", error |-> "WebSocket error", interval |-> 0]
    ELSE IF ~ IsSome(ParseRemoteAuth(item))
    THEN [to |-> "Err", error |-> "Failed to parse hello", interval |-> 0]
    ELSE LET hello == Unwrap(ParseRemoteAuth(item))
         IN IF hello.op # "hello"
            THEN [to |-> "Err", error |-> "Expected hello, got: {}", interval |-> 0]
            ELSE IF \/ "heartbeat_interval" \notin DOMAIN hello.data
                    \/ ~ IsSome(AsU64(hello.data.heartbeat_interval))
            THEN [to |-> "Err", error |-> "No heartbeat_interval in hello",
                  interval |-> 0]
            ELSE IF hello.data.heartbeat_interval = 0
            THEN [to |-> "Panic", error |-> "", interval |-> 0]
            ELSE [to |-> "Ok", error |-> "",
                  interval |-> hello.data.heartbeat_interval]

\* mutant of SkipFirstTick: the immediate first tick is left in the timer
KeepFirstTick(t) == t

\* heartbeat_timer.tick().await right after the timer is built: the first
\* tick completes at once and the deadline moves one period on
SkipFirstTick(t) == AfterTick(t)

\* ------------------------------------------------------------------------
\* The arms of the main loop.  Each yields what the iteration does: "to" is
\* "Continue" (the loop goes on), "Err" (the function returns the error) or
\* "Exchange" (the ticket is posted to the exchange endpoint); send, show
\* and logs are the frames written, the pairing codes shown and the records
\* logged.
\* ------------------------------------------------------------------------
Continue(send, show, logs) ==
    [to |-> "Continue", error |-> "", send |-> send, show |-> show,
     logs |-> logs, ticket |-> None]
Fail(error, logs) ==
    [to |-> "Err", error |-> error, send |-> << >>, show |-> << >>,
     logs |-> logs, ticket |-> None]

\* "nonce_proof"
OnNonceProof(data, private, send_ok) ==
    IF "encrypted_nonce" \notin DOMAIN data THEN Fail("No encrypted_nonce", << >>)
    ELSE IF ~ IsSome(B64Decode(data.encrypted_nonce))
    THEN Fail("Failed to decode nonce", << >>)
    ELSE IF ~ IsSome(Decrypt(private, Unwrap(B64Decode(data.encrypted_nonce))))
    THEN Fail("Failed to decrypt nonce", << >>)
    ELSE IF ~ send_ok THEN Fail("send failed", << >>)
    ELSE Continue(
            << ProofFrame(Unwrap(Decrypt(private,
                                         Unwrap(B64Decode(data.encrypted_nonce))))) >>,
            << >>,
            << LogLine("debug", "Sent nonce_proof") >>)

\* mutant of OnPendingRemoteInit: a failure of print_qr ends the handshake
OnPendingRemoteInitFatal(data, qr_ok) ==
    IF "fingerprint" \notin DOMAIN data THEN Fail("No fingerprint", << >>)
    ELSE IF qr_ok
    THEN Continue(<< >>,
                  << [kind |-> "qr", url |-> QrUrl(data.fingerprint)] >>,
                  << LogStr("info", "Fingerprint: {}", data.fingerprint) >>)
    ELSE Fail("Failed to display QR code", << >>)

\* "pending_remote_init": a failure of print_qr is logged and the URL is
\* printed instead
OnPendingRemoteInit(data, qr_ok) ==
    IF "fingerprint" \notin DOMAIN data THEN Fail("No fingerprint", << >>)
    ELSE IF qr_ok
    THEN Continue(<< >>,
                  << [kind |-> "qr", url |-> QrUrl(data.fingerprint)] >>,
                  << LogStr("info", "Fingerprint: {}", data.fingerprint) >>)
    ELSE Continue(<< >>,
                  << [kind |-> "url", url |-> QrUrl(data.fingerprint)] >>,
                  << LogStr("info", "Fingerprint: {}", data.fingerprint),
                     LogLine("warn", "Failed to display QR code: {}. Showing URL instead.") >>)

\* "pending_ticket"
OnPendingTicket == Continue(<< >>, << >>, << LogLine("info", "User scanned QR code") >>)

\* mutant of OnPendingLogin: a pending_login without a ticket is ignored
OnPendingLoginLenient(data) ==
    IF "ticket" \notin DOMAIN data THEN Continue(<< >>, << >>, << >>)
    ELSE [to |-> "Exchange", error |-> "", send |-> << >>, show |-> << >>,
          logs |-> << LogLine("debug", "Got ticket, exchanging for token...") >>,
          ticket |-> Some(data.ticket)]

\* "pending_login", up to the POST of the ticket
OnPendingLogin(data) ==
    IF "ticket" \notin DOMAIN data THEN Fail("No ticket in pending_login", << >>)
    ELSE [to |-> "Exchange", error |-> "", send |-> << >>, show |-> << >>,
          logs |-> << LogLine("debug", "Got ticket, exchanging for token...") >>,
          ticket |-> Some(data.ticket)]

\* mutant of OnCancel: a cancel is ignored like an unknown tag
OnCancelIgnored == Continue(<< >>, << >>, << >>)

\* "cancel"
OnCancel == Fail("Authentication was cancelled", << >>)

\* mutant of OnHeartbeatAck: the acknowledgement is answered with a heartbeat
OnHeartbeatAckAnswers == Continue(<< AuthHeartbeatFrame >>, << >>, << >>)

\* "heartbeat_ack"
OnHeartbeatAck == Continue(<< >>, << >>, << >>)

\* any other tag
OnUnknown(op) == Continue(<< >>, << >>, << LogStr("debug", "Ignoring unknown op: {}", op) >>)

\* mutant of LoopStep: an error or the end of the stream is skipped and the
\* loop reads on
LoopStepReadsOn(item, private, io_ok) ==
    IF item.kind \in {"Err", "End"} THEN Continue(<< >>, << >>, << >>)
    ELSE IF ~ IsSome(ParseRemoteAuth(item)) THEN Fail("parse error", << >>)
    ELSE LET msg == Unwrap(ParseRemoteAuth(item))
         IN CASE msg.op = "nonce_proof" -> OnNonceProof(msg.data, private, io_ok)
              [] msg.op = "pending_remote_init" -> OnPendingRemoteInit(msg.data, io_ok)
              [] msg.op = "pending_ticket" -> OnPendingTicket
              [] msg.op = "pending_login" -> OnPendingLogin(msg.data)
              [] msg.op = "cancel" -> OnCancel
              [] msg.op = "heartbeat_ack" -> OnHeartbeatAck
              [] OTHER -> OnUnknown(msg.op)

\* one item in the read branch of the select: io_ok is whether the send of
\* the proof, or the rendering of the pairing code, succeeds
LoopStep(item, private, io_ok) ==
    IF item.kind = "Err" THEN Fail("WebSocket error: {}", << >>)
    ELSE IF item.kind = "End" THEN Fail("WebSocket connection closed", << >>)
    ELSE IF ~ IsSome(ParseRemoteAuth(item)) THEN Fail("parse error", << >>)
    ELSE LET msg == Unwrap(ParseRemoteAuth(item))
             arm == CASE msg.op = "nonce_proof" -> OnNonceProof(msg.data, private, io_ok)
                      [] msg.op = "pending_remote_init" ->
                            OnPendingRemoteInit(msg.data, io_ok)
                      [] msg.op = "pending_ticket" -> OnPendingTicket
                      [] msg.op = "pending_login" -> OnPendingLogin(msg.data)
                      [] msg.op = "cancel" -> OnCancel
                      [] msg.op = "heartbeat_ack" -> OnHeartbeatAck
                      [] OTHER -> OnUnknown(msg.op)
         IN [arm EXCEPT !.logs = << LogStr("debug", "Received op: {}", msg.op) >> \o @]

\* mutant of ExchangeStep: the token is returned without the check that it
\* is not empty
ExchangeStepAcceptsEmpty(resp, private) ==
    IF resp.kind = "Err" THEN AuthErr("Failed to exchange ticket for token")
    ELSE IF "encrypted_token" \notin DOMAIN resp.obj
    THEN AuthErr("Failed to parse token response")
    ELSE IF ~ IsSome(B64Decode(resp.obj.encrypted_token))
    THEN AuthErr("Failed to decode encrypted token")
    ELSE LET cipher == Unwrap(B64Decode(resp.obj.encrypted_token))
         IN IF ~ IsSome(Decrypt(private, cipher))
            THEN AuthErr("Failed to decrypt token")
            ELSE IF ~ IsSome(FromUtf8(Unwrap(Decrypt(private, cipher))))
            THEN AuthErr("Invalid UTF-8 in decrypted token")
            ELSE AuthOk(Unwrap(FromUtf8(Unwrap(Decrypt(private, cipher)))))

\* the rest of the "pending_login" arm once the exchange endpoint answered,
\* the break, and the checks on token after the loop
ExchangeStep(resp, private) ==
    IF resp.kind = "Err" THEN AuthErr("Failed to exchange ticket for token")
    ELSE IF "encrypted_token" \notin DOMAIN resp.obj
    THEN AuthErr("Failed to parse token response")
    ELSE IF ~ IsSome(B64Decode(resp.obj.encrypted_token))
    THEN AuthErr("Failed to decode encrypted token")
    ELSE LET cipher == Unwrap(B64Decode(resp.obj.encrypted_token))
         IN IF ~ IsSome(Decrypt(private, cipher))
            THEN AuthErr("Failed to decrypt token")
            ELSE IF ~ IsSome(FromUtf8(Unwrap(Decrypt(private, cipher))))
            THEN AuthErr("Invalid UTF-8 in decrypted token")
            ELSE LET token == Unwrap(FromUtf8(Unwrap(Decrypt(private, cipher))))
                 IN IF token = "" THEN AuthErr("Failed to get token")
                    ELSE AuthOk(token)

\* mutant of AfterHeartbeat: a failed send is logged and the loop goes on
AfterHeartbeatLenient(send_ok) ==
    IF send_ok
    THEN Continue(<< AuthHeartbeatFrame >>, << >>, << LogLine("debug", "Sent heartbeat") >>)
    ELSE Continue(<< >>, << >>, << LogLine("error", "Failed to send heartbeat: {}") >>)

\* the tick branch of the select: a failed send breaks the loop with token
\* still empty, so the function returns "Failed to get token"
AfterHeartbeat(send_ok) ==
    IF send_ok
    THEN Continue(<< AuthHeartbeatFrame >>, << >>, << LogLine("debug", "Sent heartbeat") >>)
    ELSE Fail("Failed to get token",
              << LogLine("error", "Failed to send heartbeat: {}") >>)

\* mutant of IsErr: the error of the handshake is not propagated
IsErrNever(result) == FALSE

\* the ? on the result of authenticate_with_qr
IsErr(result) == ~ result.ok

\* ------------------------------------------------------------------------
\* Actions of the handshake
\* ------------------------------------------------------------------------
\* main has set up the logger; no client, no handshake yet; the token file
\* is absent or holds a credential of an earlier run
AuthInit ==
    /\ auth_pc = "LoadToken"
    /\ store \in {None, Some("stored-credential")}
    /\ saved = << >>
    /\ qr_result = None
    /\ auth_result = None
    /\ heartbeat_timer = None
    /\ auth_elapsed = 0
    /\ private_key = None
    /\ auth_received = << >>
    /\ auth_sent = << >>
    /\ displayed = << >>
    /\ exchange_calls = << >>
    /\ token_response = None
    /\ log = Write(NoLog, << LogLine("info", "Hakuhyo starting...") >>)
    /\ pc = "NotConnected"
    /\ heartbeat_interval = None
    /\ last_sequence = None
    /\ session_id = None
    /\ received = << >>
    /\ events = << >>
    /\ sent = << >>
    /\ hb_pc = "NotSpawned"
    /\ hb_seq = None
    /\ ticker = None
    /\ elapsed = 0
    /\ LockIdle
    /\ AppIdle

\* token_store::load_token(): without a stored credential the handshake is
\* next, with one the validity check
AuthLoad ==
    /\ auth_pc = "LoadToken"
    /\ auth_pc' = IF IsSome(store) THEN "Validate" ELSE "Connect"
    /\ log' = Write(log, IF IsSome(store)
                         THEN << LogLine("info", "Token found in keyring, validating...") >>
                         ELSE << LogLine("debug", "No token found in keyring") >>)
    /\ UNCHANGED << store, saved, qr_result, auth_result, heartbeat_timer,
                    auth_elapsed, private_key, auth_received, auth_sent,
                    displayed, exchange_calls, token_response >>
    /\ UNCHANGED << gatewayVars, lockVars, appVars >>

\* mutant of AuthValidate: a refused credential is returned all the same
AuthValidateTrusting(valid, deleted) ==
    /\ auth_pc = "Validate"
    /\ auth_result' = Some(AuthOk(Unwrap(store)))
    /\ auth_pc' = "Done"
    /\ store' = store
    /\ log' = Write(log, IF valid
                         THEN << LogLine("info", "Stored token is valid") >>
                         ELSE << LogLine("warn", "Stored token is invalid: {}") >>)
    /\ UNCHANGED << saved, qr_result, heartbeat_timer, auth_elapsed, private_key,
                    auth_received, auth_sent, displayed, exchange_calls,
                    token_response >>
    /\ UNCHANGED << gatewayVars, lockVars, appVars >>

\* validate_stored_token: accepted, the stored credential is returned;
\* refused, delete_token runs (its failure is ignored) and the handshake is
\* next
AuthValidate(valid, deleted) ==
    /\ auth_pc = "Validate"
    /\ IF valid
       THEN /\ auth_result' = Some(AuthOk(Unwrap(store)))
            /\ auth_pc' = "Done"
            /\ store' = store
            /\ log' = Write(log, << LogLine("info", "Stored token is valid") >>)
       ELSE /\ auth_result' = auth_result
            /\ auth_pc' = "Connect"
            /\ store' = IF deleted THEN None ELSE store
            /\ log' = Write(log,
                   << LogLine("warn", "Stored token is invalid: {}"),
                      LogLine("warn", "Stored token is invalid, will re-authenticate") >>)
    /\ UNCHANGED << saved, qr_result, heartbeat_timer, auth_elapsed, private_key,
                    auth_received, auth_sent, displayed, exchange_calls,
                    token_response >>
    /\ UNCHANGED << gatewayVars, lockVars, appVars >>

\* connect_async to the Remote Auth server
AuthConnect(ok) ==
    /\ auth_pc = "Connect"
    /\ IF ok
       THEN /\ auth_pc' = "AwaitingHello"
            /\ qr_result' = qr_result
            /\ log' = Write(log,
                   << LogLine("info", "Starting QR code authentication..."),
                      LogLine("info", "Connected to Remote Auth server") >>)
       ELSE /\ auth_pc' = "Returned"
            /\ qr_result' = Some(AuthErr("Failed to connect to Discord Remote Auth"))
            /\ log' = Write(log,
                   << LogLine("info", "Starting QR code authentication...") >>)
    /\ UNCHANGED << store, saved, auth_result, heartbeat_timer, auth_elapsed,
                    private_key, auth_received, auth_sent, displayed,
                    exchange_calls, token_response >>
    /\ UNCHANGED << gatewayVars, lockVars, appVars >>

\* the first item must be a hello; the timer is built from its interval and
\* its first tick awaited
AuthHello(item) ==
    /\ auth_pc = "AwaitingHello"
    /\ auth_received' = Append(auth_received, item)
    /\ LET step == AuthHelloStep(item)
       IN /\ auth_pc' = CASE step.to = "Ok" -> "Init"
                          [] step.to = "Panic" -> "Panicked"
                          [] OTHER -> "Returned"
          /\ qr_result' = IF step.to = "Err" THEN Some(AuthErr(step.error))
                          ELSE qr_result
          /\ heartbeat_timer' =
                IF step.to = "Ok"
                THEN Some(SkipFirstTick(Unwrap(NewTicker(step.interval))))
                ELSE heartbeat_timer
          /\ log' = Write(log, IF step.to = "Err" THEN << >>
                               ELSE << LogNum("debug", "Heartbeat interval: {}ms",
                                              step.interval) >>)
    /\ auth_elapsed' = 0
    /\ UNCHANGED << store, saved, auth_result, private_key, auth_sent, displayed,
                    exchange_calls, token_response >>
    /\ UNCHANGED << gatewayVars, lockVars, appVars >>

\* the key pair is generated and init is sent with the public key
AuthSendInit(send_ok) ==
    /\ auth_pc = "Init"
    /\ private_key' = Some(ThisKey)
    /\ IF send_ok
       THEN /\ auth_sent' = Append(auth_sent, InitFrame(ThisKey))
            /\ auth_pc' = "Loop"
            /\ qr_result' = qr_result
            /\ log' = Write(log, << LogLine("debug", "Generating RSA key pair..."),
                                    LogLine("debug", "Sent init with public key") >>)
       ELSE /\ auth_sent' = auth_sent
            /\ auth_pc' = "Returned"
            /\ qr_result' = Some(AuthErr("Failed to send init"))
            /\ log' = Write(log, << LogLine("debug", "Generating RSA key pair...") >>)
    /\ UNCHANGED << store, saved, auth_result, heartbeat_timer, auth_elapsed,
                    auth_received, displayed, exchange_calls, token_response >>
    /\ UNCHANGED << gatewayVars, lockVars, appVars >>

\* select!: the tick branch
AuthHeartbeat(send_ok) ==
    /\ auth_pc = "Loop"
    /\ TickDue(Unwrap(heartbeat_timer), auth_elapsed)
    /\ heartbeat_timer' = Some(AfterTick(Unwrap(heartbeat_timer)))
    /\ LET step == AfterHeartbeat(send_ok)
       IN /\ auth_sent' = auth_sent \o step.send
          /\ log' = Write(log, step.logs)
          /\ auth_pc' = IF step.to = "Err" THEN "Returned" ELSE "Loop"
          /\ qr_result' = IF step.to = "Err" THEN Some(AuthErr(step.error))
                          ELSE qr_result
    /\ UNCHANGED << store, saved, auth_result, auth_elapsed, private_key,
                    auth_received, displayed, exchange_calls, token_response >>
    /\ UNCHANGED << gatewayVars, lockVars, appVars >>

\* select!: the read branch, up to the end of the iteration or to the POST
\* of the ticket
AuthReceive(item, io_ok) ==
    /\ auth_pc = "Loop"
    /\ Len(auth_received) < MaxAuthFrames
    /\ auth_received' = Append(auth_received, item)
    /\ LET step == LoopStep(item, Unwrap(private_key), io_ok)
       IN /\ auth_sent' = auth_sent \o step.send
          /\ displayed' = displayed \o step.show
          /\ log' = Write(log, step.logs)
          /\ exchange_calls' = IF step.to = "Exchange"
                               THEN Append(exchange_calls, Unwrap(step.ticket))
                               ELSE exchange_calls
          /\ auth_pc' = CASE step.to = "Continue" -> "Loop"
                          [] step.to = "Exchange" -> "TokenExchange"
                          [] OTHER -> "Returned"
          /\ qr_result' = IF step.to = "Err" THEN Some(AuthErr(step.error))
                          ELSE qr_result
    /\ UNCHANGED << store, saved, auth_result, heartbeat_timer, auth_elapsed,
                    private_key, token_response >>
    /\ UNCHANGED << gatewayVars, lockVars, appVars >>

\* the exchange endpoint answers (or the request fails): the function
\* returns the decrypted credential or an error; the success line is logged
\* as soon as the token is decoded, before the check that it is not empty
AuthExchange(resp) ==
    /\ auth_pc = "TokenExchange"
    /\ token_response' = Some(resp)
    /\ qr_result' = Some(ExchangeStep(resp, Unwrap(private_key)))
    /\ auth_pc' = "Returned"
    /\ log' = Write(log, IF \/ Unwrap(qr_result').ok
                            \/ Unwrap(qr_result') = AuthErr("Failed to get token")
                         THEN << LogLine("info", "Authentication successful") >>
                         ELSE << >>)
    /\ UNCHANGED << store, saved, auth_result, heartbeat_timer, auth_elapsed,
                    private_key, auth_received, auth_sent, displayed,
                    exchange_calls >>
    /\ UNCHANGED << gatewayVars, lockVars, appVars >>

\* get_or_authenticate_token after authenticate_with_qr().await: the ? hands
\* an error to the caller; a credential is passed to save_token, whose
\* failure is only logged, and returned
AuthFinish(save_ok) ==
    /\ auth_pc = "Returned"
    /\ auth_pc' = "Done"
    /\ IF IsErr(Unwrap(qr_result))
       THEN /\ auth_result' = qr_result
            /\ UNCHANGED << saved, store, log >>
       ELSE /\ auth_result' = Some(AuthOk(Unwrap(qr_result).token))
            /\ saved' = Append(saved, Unwrap(qr_result).token)
            /\ store' = IF save_ok THEN Some(Unwrap(qr_result).token) ELSE store
            /\ log' = Write(log, IF save_ok
                                 THEN << LogLine("info", "Token saved to {:?}") >>
                                 ELSE << LogLine("error", "Failed to save token to keyring: {}") >>)
    /\ UNCHANGED << qr_result, heartbeat_timer, auth_elapsed, private_key,
                    auth_received, auth_sent, displayed, exchange_calls,
                    token_response >>
    /\ UNCHANGED << gatewayVars, lockVars, appVars >>

\* time passes while the handshake timer exists
AuthClockTick ==
    /\ auth_pc \in {"Init", "Loop", "TokenExchange"}
    /\ auth_elapsed < MaxTime
    /\ auth_elapsed' = auth_elapsed + 1
    /\ UNCHANGED << auth_pc, store, saved, qr_result, auth_result, heartbeat_timer,
                    private_key, auth_received, auth_sent, displayed,
                    exchange_calls, token_response, log >>
    /\ UNCHANGED << gatewayVars, lockVars, appVars >>

AuthNext ==
    \/ AuthLoad
    \/ \E valid \in BOOLEAN, deleted \in BOOLEAN : AuthValidate(valid, deleted)
    \/ \E ok \in BOOLEAN : AuthConnect(ok)
    \/ \E item \in AuthItems : AuthHello(item)
    \/ \E send_ok \in BOOLEAN : AuthSendInit(send_ok)
    \/ \E send_ok \in BOOLEAN : AuthHeartbeat(send_ok)
    \/ \E item \in AuthItems, io_ok \in BOOLEAN : AuthReceive(item, io_ok)
    \/ \E resp \in ExchangeResponses : AuthExchange(resp)
    \/ \E save_ok \in BOOLEAN : AuthFinish(save_ok)
    \/ AuthClockTick

AuthSpec == AuthInit /\ [][AuthNext]_vars

\* ========================================================================
\* run_app (main.rs): the event handler given to GatewayClient::run spawns,
\* for every event, a task that converts it and sends it into the mpsc
\* channel; the main loop receives from the channel and calls
\* AppState::update (app.rs).
\* ========================================================================
\* mpsc::channel::<AppEvent>(100)
ChannelCapacity == 100

\* bounds of the exploration: the events a key press may find in the
\* channel, the REST tasks it may find running, the characters the input
\* buffer and the search buffer take, and the messages the server stores
MaxQueued == 1
MaxTasks == 1
MaxBuffer == 2
MaxQuery == 1
MaxServer == 2

\* Command
CommandNone == [type |-> "None"]
LoadMessages(channel_id) == [type |-> "LoadMessages", channel_id |-> channel_id]

\* the match of the spawned task: Ready becomes GatewayReady, the other
\* variants keep their name and what they carry
ToAppEvent(event) ==
    IF event.type = "Ready"
    THEN [type |-> "GatewayReady", data |-> event.data]
    ELSE event

\* HashMap::insert keyed by id
Insert(map, rec) == {r \in map : r.id # rec.id} \cup {rec}

\* what one call of update leaves and returns
Updated(a, command) == [app |-> a, command |-> command]

\* Strings that are searched or sorted are sequences of characters; these
\* are the characters of the model in the order of their code points
CharOrder ==
    << "/", "J", "U", "c", "d", "f", "g", "i", "j", "k", "l", "n", "o", "q",
       "u", "w" >>
CharRank(c) == CHOOSE i \in 1..Len(CharOrder) : CharOrder[i] = c

\* str::to_lowercase
ToLowercase(str) == [i \in 1..Len(str) |-> IF str[i] = "J" THEN "j"
                                            ELSE IF str[i] = "U" THEN "u"
                                            ELSE str[i]]

\* str::contains
Contains(str, pattern) ==
    \E i \in 1..(Len(str) + 1) :
        /\ i + Len(pattern) - 1 <= Len(str)
        /\ SubSeq(str, i, i + Len(pattern) - 1) = pattern

\* Ord for String: the order of the first character that differs, a proper
\* prefix first
StrLess(a, b) ==
    \E i \in 1..(Len(a) + 1) :
        /\ i <= Len(b)
        /\ SubSeq(a, 1, i - 1) = SubSeq(b, 1, i - 1)
        /\ (i = Len(a) + 1 \/ CharRank(a[i]) < CharRank(b[i]))

\* Channel::display_name: the channels of the model carry no recipients
display_name(ch) ==
    IF IsSome(ch.name) THEN Unwrap(ch.name)
    ELSE << "U", "n", "k", "n", "o", "w", "n" >>

\* the comparison of the three sort_by calls: the type, then the name
ChannelLess(a, b) ==
    \/ a.channel_type < b.channel_type
    \/ a.channel_type = b.channel_type /\ StrLess(display_name(a), display_name(b))

\* the sorted Vec of a set of channels (no two channels of the model have
\* the same type and the same name, so the order is total)
SortChannels(set) ==
    [i \in 1..Cardinality(set) |->
        CHOOSE ch \in set : Cardinality({o \in set : ChannelLess(o, ch)}) = i - 1]

get_channel_list(a) == SortChannels(a.channels)

get_favorite_channels(a) ==
    SortChannels({ch \in a.channels : ch.id \in a.favorites})

\* search_channels: a match on the name of the channel or of its guild
search_channels(a, query) ==
    IF query = << >> THEN << >>
    ELSE LET query_lower == ToLowercase(query)
             name_match(ch) == Contains(ToLowercase(display_name(ch)), query_lower)
             guild_match(ch) ==
                 /\ IsSome(ch.guild_id)
                 /\ \E guild \in a.guilds :
                       /\ guild.id = Unwrap(ch.guild_id)
                       /\ Contains(ToLowercase(guild.name), query_lower)
         IN SortChannels({ch \in a.channels : name_match(ch) \/ guild_match(ch)})

get_current_display_channels(a) ==
    IF a.search_mode THEN search_channels(a, a.search_buffer)
    ELSE get_favorite_channels(a)

\* the first channel is selected when none is: the first favorite, else the
\* first of get_channel_list()
SelectFirst(a) ==
    IF IsSome(a.selected_channel) THEN Updated(a, CommandNone)
    ELSE LET favorites == get_favorite_channels(a)
             list == IF favorites # << >> THEN favorites ELSE get_channel_list(a)
         IN IF list = << >> THEN Updated(a, CommandNone)
            ELSE Updated([a EXCEPT !.selected_channel = Some(list[1].id),
                                   !.channel_list_state = Some(0)],
                         LoadMessages(list[1].id))

\* AppEvent::GatewayReady: the READY payloads of the model carry no users,
\* guilds or private_channels, so only the user and connected are set
UpdateReady(a, data) ==
    LET user == IF "user" \in DOMAIN data THEN DecodeUser(data.user) ELSE None
    IN SelectFirst([a EXCEPT !.current_user = IF IsSome(user) THEN user ELSE @,
                             !.connected = TRUE])

\* AppEvent::GuildCreate
UpdateGuildCreate(a, guild, channels) ==
    LET added == {channels[i] : i \in 1..Len(channels)}
        kept == {ch \in a.channels : \A new \in added : new.id # ch.id}
    IN SelectFirst([a EXCEPT !.guilds = Insert(@, guild),
                             !.channels = kept \cup added])

\* AppEvent::MessageCreate: entry(channel_id).or_default().push(message)
UpdateMessageCreate(a, message) ==
    LET list == a.messages[message.channel_id]
    IN Updated([a EXCEPT !.messages[message.channel_id] =
                    Some(Append(IF IsSome(list) THEN Unwrap(list) ELSE << >>,
                                message))],
               CommandNone)

\* AppEvent::MessageUpdate: the first message with this id is replaced
UpdateMessageUpdate(a, message) ==
    LET list == a.messages[message.channel_id]
    IN IF ~ IsSome(list) THEN Updated(a, CommandNone)
       ELSE LET found == {i \in 1..Len(Unwrap(list)) : Unwrap(list)[i].id = message.id}
            IN IF found = {} THEN Updated(a, CommandNone)
               ELSE LET pos == CHOOSE i \in found : \A j \in found : i <= j
                    IN Updated([a EXCEPT !.messages[message.channel_id] =
                                    Some([Unwrap(list) EXCEPT ![pos] = message])],
                               CommandNone)

\* AppEvent::MessageDelete: messages.retain(|m| m.id != id)
UpdateMessageDelete(a, id, channel_id) ==
    LET list == a.messages[channel_id]
    IN IF ~ IsSome(list) THEN Updated(a, CommandNone)
       ELSE Updated([a EXCEPT !.messages[channel_id] =
                        Some(SelectSeq(Unwrap(list), LAMBDA m : m.id # id))],
                    CommandNone)

\* AppEvent::MessagesLoaded: the list of the channel is replaced
UpdateMessagesLoaded(a, channel_id, messages) ==
    Updated([a EXCEPT !.messages[channel_id] = Some(messages)], CommandNone)

\* AppEvent::MessageSent: the list of the channel is loaded again
UpdateMessageSent(a, message) == Updated(a, LoadMessages(message.channel_id))

\* KeyCode: Char carries its character
Key(code, c) == [code |-> code, c |-> c]
Char(c) == Key("Char", c)

\* Command::SendMessage
SendMessage(channel_id, content) ==
    [type |-> "SendMessage", channel_id |-> channel_id, content |-> content]

\* an index out of bounds: the call panics and does not return
Panicked(a) == [app |-> a, command |-> [type |-> "Panic"]]

\* String::pop
Pop(str) == IF str = << >> THEN str ELSE SubSeq(str, 1, Len(str) - 1)

toggle_favorite(a) ==
    IF ~ IsSome(a.selected_channel) THEN a
    ELSE IF Unwrap(a.selected_channel) \in a.favorites
    THEN [a EXCEPT !.favorites = @ \ {Unwrap(a.selected_channel)}]
    ELSE [a EXCEPT !.favorites = @ \cup {Unwrap(a.selected_channel)}]

\* the buffer is cleared on the way in and on the way out
toggle_search_mode(a) ==
    [a EXCEPT !.search_mode = ~ @, !.search_buffer = << >>]

search_input(a, c) ==
    IF a.search_mode THEN [a EXCEPT !.search_buffer = Append(@, c)] ELSE a

search_backspace(a) ==
    IF a.search_mode THEN [a EXCEPT !.search_buffer = Pop(@)] ELSE a

\* channel_list_state.select(Some(new_index)), then channel_ids[new_index]:
\* the Vec is indexed from 0
SelectIndex(a, channel_ids, new_index) ==
    LET selected == [a EXCEPT !.channel_list_state = Some(new_index)]
    IN IF new_index >= Len(channel_ids) THEN Panicked(selected)
       ELSE Updated([selected EXCEPT !.selected_channel =
                                         Some(channel_ids[new_index + 1])],
                    LoadMessages(channel_ids[new_index + 1]))

\* the ids of the channels on display
DisplayIds(a) ==
    [i \in 1..Len(get_current_display_channels(a)) |->
        get_current_display_channels(a)[i].id]

\* channel_list_state.selected().unwrap_or(0)
CurrentIndex(a) ==
    IF IsSome(a.channel_list_state) THEN Unwrap(a.channel_list_state) ELSE 0

select_previous_channel(a) ==
    LET channel_ids == DisplayIds(a)
    IN IF channel_ids = << >> THEN Updated(a, CommandNone)
       ELSE SelectIndex(a, channel_ids,
                        IF CurrentIndex(a) > 0 THEN CurrentIndex(a) - 1
                        ELSE Len(channel_ids) - 1)

select_next_channel(a) ==
    LET channel_ids == DisplayIds(a)
    IN IF channel_ids = << >> THEN Updated(a, CommandNone)
       ELSE SelectIndex(a, channel_ids,
                        IF CurrentIndex(a) < Len(channel_ids) - 1
                        THEN CurrentIndex(a) + 1
                        ELSE 0)

\* Enter outside the editing mode: the messages of the selected channel are
\* loaded
LoadSelected(a) ==
    IF IsSome(a.selected_channel)
    THEN Updated(a, LoadMessages(Unwrap(a.selected_channel)))
    ELSE Updated(a, CommandNone)

\* handle_key_press while search_mode is set
SearchKeyPress(a, key) ==
    CASE key.code = "Esc" -> Updated(toggle_search_mode(a), CommandNone)
      [] key.code = "Backspace" -> Updated(search_backspace(a), CommandNone)
      [] key.code = "Up" -> select_previous_channel(a)
      [] key.code = "Down" -> select_next_channel(a)
      [] key.code = "Enter" -> LoadSelected(toggle_search_mode(a))
      [] key.code = "Char" -> Updated(search_input(a, key.c), CommandNone)
      [] OTHER -> Updated(a, CommandNone)

\* handle_key_press in InputMode::Normal
NormalKeyPress(a, key) ==
    CASE key = Char("q") -> Updated(a, CommandNone)
      [] key = Char("i") -> Updated([a EXCEPT !.input_mode = "Editing"], CommandNone)
      [] key = Char("/") -> Updated(toggle_search_mode(a), CommandNone)
      [] key = Char("f") -> Updated(toggle_favorite(a), CommandNone)
      [] key.code = "Up" \/ key = Char("k") -> select_previous_channel(a)
      [] key.code = "Down" \/ key = Char("j") -> select_next_channel(a)
      [] key.code = "Enter" -> LoadSelected(a)
      [] OTHER -> Updated(a, CommandNone)

\* mutant of EditingKeyPress: Enter sends the buffer and keeps it
EditingKeyPressKeepsBuffer(a, key) ==
    CASE key.code = "Esc" -> Updated([a EXCEPT !.input_mode = "Normal"], CommandNone)
      [] key.code = "Enter" ->
            IF a.input_buffer # << >> /\ IsSome(a.selected_channel)
            THEN Updated(a, SendMessage(Unwrap(a.selected_channel), a.input_buffer))
            ELSE Updated(a, CommandNone)
      [] key.code = "Backspace" ->
            Updated([a EXCEPT !.input_buffer = Pop(@)], CommandNone)
      [] key.code = "Char" ->
            Updated([a EXCEPT !.input_buffer = Append(@, key.c)], CommandNone)
      [] OTHER -> Updated(a, CommandNone)

\* handle_key_press in InputMode::Editing: Enter clears a buffer that is not
\* empty, whether or not a channel is selected
EditingKeyPress(a, key) ==
    CASE key.code = "Esc" -> Updated([a EXCEPT !.input_mode = "Normal"], CommandNone)
      [] key.code = "Enter" ->
            IF a.input_buffer = << >> THEN Updated(a, CommandNone)
            ELSE IF IsSome(a.selected_channel)
            THEN Updated([a EXCEPT !.input_buffer = << >>],
                         SendMessage(Unwrap(a.selected_channel), a.input_buffer))
            ELSE Updated([a EXCEPT !.input_buffer = << >>], CommandNone)
      [] key.code = "Backspace" ->
            Updated([a EXCEPT !.input_buffer = Pop(@)], CommandNone)
      [] key.code = "Char" ->
            Updated([a EXCEPT !.input_buffer = Append(@, key.c)], CommandNone)
      [] OTHER -> Updated(a, CommandNone)

handle_key_press(a, key) ==
    IF a.search_mode THEN SearchKeyPress(a, key)
    ELSE IF a.input_mode = "Normal" THEN NormalKeyPress(a, key)
    ELSE EditingKeyPress(a, key)

\* AppState::update (AppEvent::Input is never sent and has no arm here)
Update(a, ev) ==
    CASE ev.type = "GatewayReady" -> UpdateReady(a, ev.data)
      [] ev.type = "GuildCreate" -> UpdateGuildCreate(a, ev.guild, ev.channels)
      [] ev.type = "MessageCreate" -> UpdateMessageCreate(a, ev.message)
      [] ev.type = "MessageUpdate" -> UpdateMessageUpdate(a, ev.message)
      [] ev.type = "MessageDelete" -> UpdateMessageDelete(a, ev.id, ev.channel_id)
      [] ev.type = "MessagesLoaded" ->
            UpdateMessagesLoaded(a, ev.channel_id, ev.messages)
      [] ev.type = "MessageSent" -> UpdateMessageSent(a, ev.message)
      [] ev.type = "KeyPress" -> handle_key_press(a, ev.key)
      [] ev.type \in {"Tick", "Quit"} -> Updated(a, CommandNone)

\* the message of MsgFull after an edit
MsgEdited == [MsgFull EXCEPT !.content = "edited"]

\* the frames of this view: the events about one message, a READY, a guild
\* with a text channel, a type that yields no event, and the close of the
\* connection
DeliveryItems ==
    { Text(DISPATCH, Some(1), Some("READY"), Some(ReadyA)),
      Text(DISPATCH, Some(2), Some("MESSAGE_CREATE"), Some(MsgFull)),
      Text(DISPATCH, Some(2), Some("MESSAGE_UPDATE"), Some(MsgEdited)),
      Text(DISPATCH, Some(2), Some("MESSAGE_DELETE"), Some(MsgRef)),
      Text(DISPATCH, Some(3), Some("GUILD_CREATE"), Some(GuildFull)),
      Text(DISPATCH, Some(2), Some("TYPING_START"), Some(MsgRef)),
      CloseItem }

\* the ids and timestamps the server gives to its messages, in order
MessageIds == << "m1", "m2", "m3", "m4" >>
Timestamps == << "t1", "t2", "t3", "t4" >>

\* the n-th message of the server, as the JSON object the gateway and the
\* REST endpoints carry
ServerMessage(n, channel_id, content) ==
    [id |-> MessageIds[n], channel_id |-> channel_id, author |-> UserFull,
     content |-> content, timestamp |-> Timestamps[n]]

\* what the server holds when the program starts: one message in c1
History == << ServerMessage(1, "c1", << "o", "k" >>) >>

\* run_app has built the state and the channel, and the session is right
\* after a Hello with interval 2, a successful Identify and the start of the
\* heartbeat task
AppInit ==
    /\ pc = "Connected"
    /\ heartbeat_interval = Some(2)
    /\ last_sequence = None
    /\ session_id = None
    /\ received = << Text(HELLO, None, None, Some(HelloData(2))) >>
    /\ events = << >>
    /\ sent = << IdentifyFrame >>
    /\ hb_pc = "Tick"
    /\ hb_seq = None
    /\ ticker = NewTicker(2)
    /\ elapsed = 0
    /\ log = Write(NoLog,
                   << LogLine("info", "Initializing application state"),
                      LogLine("info", "Gateway URL: {}"),
                      LogLine("info", "Connecting to Gateway: {}"),
                      LogLine("info", "Connected to Gateway"),
                      LogNum("info", "Received Hello, heartbeat interval: {}ms", 2) >>
                   \o IdentifyLogs \o << LogLine("info", "Sent Identify") >>)
    /\ LockIdle
    /\ AuthIdle
    /\ forwarded = {}
    /\ event_rx = << >>
    /\ app = AppNew
    /\ updates = << >>
    /\ main_pc = "Running"
    /\ ui_pc = "Reading"
    /\ rest = << >>
    /\ server = History

\* the task spawned by the i-th call of the handler runs: it converts the
\* event and sends it; the tasks of different calls run in any order
Forward(i) ==
    /\ i \in 1..Len(events)
    /\ i \notin forwarded
    /\ Len(event_rx) < ChannelCapacity
    /\ forwarded' = forwarded \cup {i}
    /\ event_rx' = Append(event_rx, ToAppEvent(events[i]))
    /\ UNCHANGED << app, updates, main_pc, ui_pc, rest, server >>
    /\ UNCHANGED << gatewayVars, log, lockVars, authVars >>

\* AppEvent of the key task and of the REST tasks
Quit == [type |-> "Quit"]
KeyPress(key) == [type |-> "KeyPress", key |-> key]
MessagesLoaded(channel_id, messages) ==
    [type |-> "MessagesLoaded", channel_id |-> channel_id, messages |-> messages]
MessageSent(message) == [type |-> "MessageSent", message |-> message]

\* a key event of the terminal: the key code and whether CONTROL is held
KeyEvent(key, control) == [key |-> key, control |-> control]

\* the two tests of the key task: Ctrl+C, and q whatever the mode is
QuitsOn(key_event) ==
    \/ key_event.key = Char("c") /\ key_event.control
    \/ key_event.key = Char("q")

\* the buffer the character of a key press would be pushed to is full (a
\* bound of the exploration)
BufferFull ==
    \/ app.search_mode /\ Len(app.search_buffer) >= MaxQuery
    \/ ~ app.search_mode /\ app.input_mode = "Editing"
          /\ Len(app.input_buffer) >= MaxBuffer

\* the task that reads the terminal: one key event; Quit ends the task, and
\* the modifiers of any other key are dropped
KeyTask(key_event) ==
    /\ main_pc = "Running"
    /\ ui_pc = "Reading"
    /\ Len(event_rx) < ChannelCapacity
    /\ Len(event_rx) < MaxQueued
    /\ Len(rest) < MaxTasks
    /\ ~ (key_event.key.code = "Char" /\ ~ QuitsOn(key_event) /\ BufferFull)
    /\ IF QuitsOn(key_event)
       THEN event_rx' = Append(event_rx, Quit) /\ ui_pc' = "Ended"
       ELSE event_rx' = Append(event_rx, KeyPress(key_event.key)) /\ ui_pc' = "Reading"
    /\ UNCHANGED << forwarded, app, updates, main_pc, rest, server >>
    /\ UNCHANGED << gatewayVars, log, lockVars, authVars >>

\* the task the main loop spawns for a command
Task(command) == [command |-> command, response |-> None]
Spawns(command) == command.type \in {"LoadMessages", "SendMessage"}

\* one iteration of the main loop: event_rx.recv() yields the oldest event
\* in the channel; Quit breaks the loop; otherwise update is called with the
\* event and the command it returns is executed by spawning its task. A
\* panic of update ends run_app.
MainLoopStep ==
    /\ main_pc = "Running"
    /\ event_rx # << >>
    /\ event_rx' = Tail(event_rx)
    /\ IF Head(event_rx).type = "Quit"
       THEN /\ main_pc' = "Exited"
            /\ UNCHANGED << app, rest >>
       ELSE LET result == Update(app, Head(event_rx))
            IN /\ app' = result.app
               /\ main_pc' = IF result.command.type = "Panic" THEN "Panicked"
                             ELSE "Running"
               /\ rest' = IF Spawns(result.command)
                          THEN Append(rest, Task(result.command))
                          ELSE rest
    /\ UNCHANGED << forwarded, ui_pc, server >>
    /\ UNCHANGED << gatewayVars, log, lockVars, authVars >>

\* the iteration, with the call of update recorded
Recv ==
    /\ MainLoopStep
    /\ updates' = IF Head(event_rx).type = "Quit" THEN updates
                  ELSE Append(updates,
                              [event |-> Head(event_rx),
                               command |-> Update(app, Head(event_rx)).command])

\* the iteration in the views that do not record the calls
MainLoop ==
    /\ MainLoopStep
    /\ UNCHANGED updates

\* a sequence without its i-th element
Remove(seq, i) == SubSeq(seq, 1, i - 1) \o SubSeq(seq, i + 1, Len(seq))
Reverse(seq) == [i \in 1..Len(seq) |-> seq[Len(seq) + 1 - i]]

\* rest.get_messages(&channel_id, 50): the endpoint answers with the newest
\* messages of the channel, newest first
MessageLimit == 50
get_messages(channel_id) ==
    LET stored == SelectSeq(server, LAMBDA m : m.channel_id = channel_id)
        newest == Reverse(stored)
        page == SubSeq(newest, 1, IF Len(newest) < MessageLimit THEN Len(newest)
                                  ELSE MessageLimit)
    IN [i \in 1..Len(page) |-> Unwrap(DecodeMessage(page[i]))]

\* the REST call of the i-th task is answered, or fails: a task whose call
\* failed ends without sending anything; send_message stores the message on
\* the server
RestAnswer(i, ok) ==
    /\ main_pc = "Running"
    /\ i \in 1..Len(rest)
    /\ rest[i].response = None
    /\ LET command == rest[i].command
       IN IF ~ ok
          THEN rest' = Remove(rest, i) /\ UNCHANGED server
          ELSE IF command.type = "LoadMessages"
          THEN /\ rest' = [rest EXCEPT ![i].response =
                              Some(get_messages(command.channel_id))]
               /\ UNCHANGED server
          ELSE /\ Len(server) < MaxServer
               /\ server' = Append(server,
                                   ServerMessage(Len(server) + 1, command.channel_id,
                                                 command.content))
               /\ rest' = [rest EXCEPT ![i].response =
                              Some(Unwrap(DecodeMessage(server'[Len(server')])))]
    /\ UNCHANGED << forwarded, event_rx, app, updates, main_pc, ui_pc >>
    /\ UNCHANGED << gatewayVars, log, lockVars, authVars >>

\* the i-th task sends the result of its call into the channel and ends
RestSend(i) ==
    /\ main_pc = "Running"
    /\ i \in 1..Len(rest)
    /\ rest[i].response # None
    /\ Len(event_rx) < ChannelCapacity
    /\ event_rx' = Append(event_rx,
                          IF rest[i].command.type = "LoadMessages"
                          THEN MessagesLoaded(rest[i].command.channel_id,
                                              Unwrap(rest[i].response))
                          ELSE MessageSent(Unwrap(rest[i].response)))
    /\ rest' = Remove(rest, i)
    /\ UNCHANGED << forwarded, app, updates, main_pc, ui_pc, server >>
    /\ UNCHANGED << gatewayVars, log, lockVars, authVars >>

\* somebody else posts a message in c1
ServerPost ==
    /\ Len(server) < MaxServer
    /\ server' = Append(server, ServerMessage(Len(server) + 1, "c1", << "y", "o" >>))
    /\ UNCHANGED << forwarded, event_rx, app, updates, main_pc, ui_pc, rest >>
    /\ UNCHANGED << gatewayVars, log, lockVars, authVars >>

\* the messages stored since the program started whose MESSAGE_CREATE frame
\* the gateway has not delivered yet
Announced == Cardinality({i \in 1..Len(events) : events[i].type = "MessageCreate"})

\* the gateway delivers the MESSAGE_CREATE frame of the next such message
GatewayAnnounce ==
    /\ Len(History) + Announced < Len(server)
    /\ Dispatch(Text(DISPATCH, Some(Announced + 1), Some("MESSAGE_CREATE"),
                     Some(server[Len(History) + Announced + 1])))

\* in this view the REST endpoint is out of reach: every call fails
AppNext ==
    \/ \E item \in DeliveryItems : Dispatch(item)
    \/ \E i \in 1..MaxFrames : Forward(i)
    \/ Recv
    \/ \E i \in 1..MaxFrames : RestAnswer(i, FALSE)

AppSpec == AppInit /\ [][AppNext]_vars

\* ------------------------------------------------------------------------
\* The keys: run_app with a guild of three text channels, the key task and
\* the main loop; the REST endpoint is out of reach, so every call fails.
\* ------------------------------------------------------------------------
\* the characters of the names stand for their strings
ChannelJi == [id |-> "c1", type |-> 0, name |-> << "J", "i" >>]
ChannelJk == [id |-> "c2", type |-> 0, name |-> << "j", "k" >>]
ChannelJq == [id |-> "c3", type |-> 0, name |-> << "j", "q" >>]
GuildThree ==
    [id |-> "g1", name |-> << "g", "u", "i", "l", "d" >>, owner_id |-> "u1",
     channels |-> << ChannelJq, ChannelJi, ChannelJk >>]
GuildThreeFrame == Text(DISPATCH, Some(1), Some("GUILD_CREATE"), Some(GuildThree))

\* the keys of this view; q is the only one that makes the key task quit
UiKeys ==
    { KeyEvent(Char(c), FALSE) : c \in {"q", "i", "/", "f", "j", "k"} }
    \cup { KeyEvent(Key(code, ""), FALSE) :
              code \in {"Up", "Down", "Enter", "Esc", "Backspace"} }

UiNext ==
    \/ Dispatch(GuildThreeFrame) /\ events = << >>
    \/ \E i \in 1..MaxFrames : Forward(i)
    \/ \E key_event \in UiKeys : KeyTask(key_event)
    \/ MainLoop
    \/ \E i \in 1..(MaxTasks + 1) : RestAnswer(i, FALSE)

UiSpec == AppInit /\ [][UiNext]_vars

\* ------------------------------------------------------------------------
\* The key presses as calls of AppState::update: the function is applied to
\* one key press after another, from the state of construction and from
\* the state in which the guild of three channels has arrived.
\* ------------------------------------------------------------------------
\* the state after update was called with the GUILD_CREATE of GuildThree
AppWithGuild ==
    Update(AppNew,
           ToAppEvent(Unwrap(handle_message(GuildThreeFrame, None, None).event))).app

\* the key codes the key task passes on
KeyCodes == {key_event.key : key_event \in {k \in UiKeys : ~ QuitsOn(k)}}

KeyInit ==
    /\ pc = "NotConnected"
    /\ heartbeat_interval = None
    /\ last_sequence = None
    /\ session_id = None
    /\ received = << >>
    /\ events = << >>
    /\ sent = << >>
    /\ hb_pc = "NotSpawned"
    /\ hb_seq = None
    /\ ticker = None
    /\ elapsed = 0
    /\ log = NoLog
    /\ LockIdle
    /\ AuthIdle
    /\ forwarded = {}
    /\ event_rx = << >>
    /\ app \in {AppNew, AppWithGuild}
    /\ updates = << >>
    /\ main_pc = "Running"
    /\ ui_pc = "Reading"
    /\ rest = << >>
    /\ server = << >>

\* update is called with a key press; the command it returns takes the
\* place of the one recorded before. A panic of update ends run_app.
UpdateKey(key) ==
    /\ main_pc = "Running"
    /\ ~ (key.code = "Char" /\ BufferFull)
    /\ LET result == Update(app, KeyPress(key))
       IN /\ app' = result.app
          /\ main_pc' = IF result.command.type = "Panic" THEN "Panicked"
                        ELSE "Running"
          /\ updates' = << [command |-> result.command] >>
    /\ UNCHANGED << forwarded, event_rx, ui_pc, rest, server >>
    /\ UNCHANGED << gatewayVars, log, lockVars, authVars >>

KeyNext == \E key \in KeyCodes : UpdateKey(key)

KeySpec == KeyInit /\ [][KeyNext]_vars

\* ------------------------------------------------------------------------
\* The messages: run_app with a guild of one text channel, messages posted
\* by others and by the user, the gateway frames that announce them, and
\* the REST tasks that load the list of a channel.
\* ------------------------------------------------------------------------
GuildFrame == Text(DISPATCH, Some(1), Some("GUILD_CREATE"), Some(GuildFull))

MsgKeys ==
    { KeyEvent(Char("i"), FALSE), KeyEvent(Key("Enter", ""), FALSE),
      KeyEvent(Key("Esc", ""), FALSE), KeyEvent(Char("c"), TRUE) }

MsgNext ==
    \/ Dispatch(GuildFrame) /\ events = << >>
    \/ GatewayAnnounce
    \/ \E i \in 1..MaxFrames : Forward(i)
    \/ \E key_event \in MsgKeys : KeyTask(key_event)
    \/ MainLoop
    \/ \E i \in 1..(MaxTasks + 1), ok \in BOOLEAN : RestAnswer(i, ok)
    \/ \E i \in 1..(MaxTasks + 1) : RestSend(i)
    \/ ServerPost

MsgSpec == AppInit /\ [][MsgNext]_vars

\* ========================================================================
\* Properties of the session client
\* ========================================================================
Last(seq) == seq[Len(seq)]
CountOp(frames, op) == Cardinality({i \in 1..Len(frames) : frames[i].op = op})
Heartbeats == CountOp(sent, HEARTBEAT)

\* a text that is an Envelope: op a small integer, s absent or a sequence
IsEnvelope(item) ==
    /\ item.kind = "Text"
    /\ item.op \in 0..U8Max
    /\ (IsSome(item.s) => Unwrap(item.s) >= 0)

\* a valid Hello: op 10 with d.heartbeat_interval = n
IsValidHello(item) ==
    /\ IsEnvelope(item)
    /\ item.op = HELLO
    /\ IsSome(item.d)
    /\ "heartbeat_interval" \in DOMAIN Unwrap(item.d)

HelloPositions == {i \in 1..Len(received) : IsValidHello(received[i])}
HelloReceived == HelloPositions # {}
FirstHello == CHOOSE i \in HelloPositions : \A j \in HelloPositions : i <= j

\* the items that reached the dispatch loop, in arrival order
ConnectedItems ==
    IF HelloReceived THEN SubSeq(received, FirstHello + 1, Len(received))
    ELSE << >>

\* a step in which the dispatch loop takes one more item from the stream
DispatchStep == pc = "Connected" /\ Len(received') = Len(received) + 1

\* a step in which wait_for_hello takes one more item from the stream
HelloWaitStep == pc = "AwaitingHello" /\ Len(received') = Len(received) + 1

\* ------------------------------------------------------------------------
\* C1: exactly one Identify is sent. At most one Identify is ever in the
\* frames sent; an Identify is sent only after a valid Hello was received;
\* every frame sent is preceded by it (no heartbeat comes before it); and
\* once the run is connected, whatever arrived since, it is still exactly one.
\* ------------------------------------------------------------------------
C1_ExactlyOneIdentify ==
    /\ CountOp(sent, IDENTIFY) <= 1
    /\ (sent # << >> => sent[1].op = IDENTIFY /\ HelloReceived)
    /\ (pc \in {"Connected", "ReturnedOk"} => CountOp(sent, IDENTIFY) = 1)
    /\ (Heartbeats > 0 => CountOp(sent, IDENTIFY) = 1)

\* a heartbeat went out and the server then sent a second Hello and a
\* Reconnect, and still one Identify
C1_Witness ==
    /\ pc = "Connected"
    /\ Heartbeats > 0
    /\ Len(ConnectedItems) = 2
    /\ IsValidHello(ConnectedItems[1])
    /\ ConnectedItems[2] = Text(RECONNECT, None, None, None)
    /\ CountOp(sent, IDENTIFY) = 1

\* ------------------------------------------------------------------------
\* C2: after the dispatch loop has processed its frames in arrival order,
\* last_sequence is the s of the most recent frame that carried one (None
\* when none did); for non-decreasing s values that is the maximum seen.
\* ------------------------------------------------------------------------
SequencesSeen ==
    LET carrying == SelectSeq(ConnectedItems,
                              LAMBDA it : IsEnvelope(it) /\ IsSome(it.s))
    IN [i \in 1..Len(carrying) |-> Unwrap(carrying[i].s)]

NonDecreasing(ss) == \A i \in 1..Len(ss) : \A j \in i..Len(ss) : ss[i] <= ss[j]
IsMaximum(n, ss) ==
    /\ \E i \in 1..Len(ss) : ss[i] = n
    /\ \A i \in 1..Len(ss) : ss[i] <= n

C2_LastSequenceIsLatest ==
    LET seen == SequencesSeen
    IN  /\ (seen = << >> => last_sequence = None)
        /\ (seen # << >> => last_sequence = Some(Last(seen)))
        /\ (seen # << >> /\ NonDecreasing(seen)
              => IsMaximum(Unwrap(last_sequence), seen))

\* two frames carried s, the larger first: the cell holds the later, smaller one
C2_Witness ==
    /\ Len(SequencesSeen) = 2
    /\ SequencesSeen[1] > SequencesSeen[2]
    /\ last_sequence = Some(SequencesSeen[2])

\* ------------------------------------------------------------------------
\* C3: every heartbeat sent is {op: 1, d: v} and nothing else, v being what
\* the loop read from last_sequence for that heartbeat: null when it read
\* None, otherwise a number that some received frame carried as s.
\* ------------------------------------------------------------------------
HeartbeatShape(frame) ==
    /\ DOMAIN frame = {"op", "d"}
    /\ frame.op = HEARTBEAT
    /\ \/ frame.d = [ty |-> "null"]
       \/ \E i \in 1..Len(ConnectedItems) :
            /\ IsEnvelope(ConnectedItems[i])
            /\ IsSome(ConnectedItems[i].s)
            /\ frame.d = [ty |-> "number", n |-> Unwrap(ConnectedItems[i].s)]

\* the step in which the loop reads the cell, and the one in which it sends
HeartbeatReadStep == hb_pc = "Tick" /\ hb_pc' = "Send"
HeartbeatSentStep == Len(sent') = Len(sent) + 1 /\ Last(sent').op = HEARTBEAT

C3_HeartbeatCarriesSequenceRead ==
    /\ [](\A i \in 1..Len(sent) : sent[i].op = HEARTBEAT => HeartbeatShape(sent[i]))
    /\ [][HeartbeatReadStep => hb_seq' = last_sequence]_vars
    /\ [][HeartbeatSentStep =>
            /\ hb_pc = "Send"
            /\ Last(sent').d = IF hb_seq = None THEN [ty |-> "null"]
                               ELSE [ty |-> "number", n |-> Unwrap(hb_seq)]]_vars

\* a null heartbeat, then one carrying a sequence that differs from the
\* cell's value when it was sent
C3_Witness ==
    /\ Len(sent) = 3
    /\ sent[2] = [op |-> HEARTBEAT, d |-> [ty |-> "null"]]
    /\ sent[3] = [op |-> HEARTBEAT, d |-> [ty |-> "number", n |-> 1]]
    /\ last_sequence = Some(2)

\* ------------------------------------------------------------------------
\* C4: the first timer tick is skipped. No heartbeat is sent before one full
\* heartbeat_interval has elapsed since the loop built its ticker, and after
\* that at most one per interval: k heartbeats need k intervals of time.
\* ------------------------------------------------------------------------
C4_FirstTickSkipped ==
    IsSome(heartbeat_interval) =>
        Heartbeats * Unwrap(heartbeat_interval) <= elapsed

\* ------------------------------------------------------------------------
\* C5: a failed heartbeat send stops the session. Once the heartbeat loop
\* has ended on a failed send, the dispatch loop takes no further item from
\* the stream and hands no further event to the event handler.
\* ------------------------------------------------------------------------
C5_HeartbeatFailureStopsRun ==
    [][hb_pc = "Stopped" => received' = received /\ events' = events]_vars

\* ------------------------------------------------------------------------
\* C6: ignore paths are no-ops. Processing a HeartbeatAck, or a Dispatch
\* whose type tag is not recognized, changes neither last_sequence nor
\* session_id and emits no event, also when the frame carries s.
\* ------------------------------------------------------------------------
KnownTypes ==
    {"READY", "GUILD_CREATE", "MESSAGE_CREATE", "MESSAGE_UPDATE", "MESSAGE_DELETE"}

IsIgnorePath(item) ==
    /\ IsEnvelope(item)
    /\ \/ item.op = HEARTBEAT_ACK
       \/ item.op = DISPATCH /\ IsSome(item.t) /\ Unwrap(item.t) \notin KnownTypes

C6_IgnorePathsAreNoOps ==
    [][DispatchStep /\ IsIgnorePath(Last(received')) =>
          /\ last_sequence' = last_sequence
          /\ session_id' = session_id
          /\ events' = events]_vars

\* C6 as amended: processing a HeartbeatAck or a Dispatch of unrecognized
\* type never changes session_id and never emits an event; it leaves
\* last_sequence unchanged when the frame carries no s, and sets it to the
\* frame's s when it carries one.
C6_IgnorePathsOnlyTrackSequence ==
    [][DispatchStep /\ IsIgnorePath(Last(received')) =>
          /\ session_id' = session_id
          /\ events' = events
          /\ pc' = "Connected"
          /\ last_sequence' = IF IsSome(Last(received').s)
                              THEN Last(received').s
                              ELSE last_sequence]_vars

\* after READY (s = 2) a HeartbeatAck carrying s = 1 was processed
C6_Witness ==
    /\ pc = "Connected"
    /\ Len(ConnectedItems) = 2
    /\ ConnectedItems[1] = Text(DISPATCH, Some(2), Some("READY"), Some(ReadyB))
    /\ ConnectedItems[2] = Text(HEARTBEAT_ACK, Some(1), None, None)
    /\ last_sequence = Some(1)
    /\ session_id = Some("sessB")
    /\ Len(events) = 1

\* ------------------------------------------------------------------------
\* C7: a malformed frame in the Connected state (a text that is no Envelope,
\* a Dispatch without t or d, a payload that lacks what its type requires)
\* emits no event and does not end the run; a valid frame, whatever came
\* before it in the run, is processed and produces the event of its type.
\* ------------------------------------------------------------------------
HasUser(obj, key) ==
    /\ key \in DOMAIN obj
    /\ {"id", "username", "discriminator"} \subseteq DOMAIN obj[key]

\* the payload has what the type tag t requires (models.rs, gateway.rs)
Decodes(t, d) ==
    CASE t = "READY" -> "session_id" \in DOMAIN d /\ HasUser(d, "user")
      [] t = "GUILD_CREATE" ->
            {"id", "name", "owner_id", "channels"} \subseteq DOMAIN d
      [] t \in {"MESSAGE_CREATE", "MESSAGE_UPDATE"} ->
            /\ {"id", "channel_id", "content", "timestamp"} \subseteq DOMAIN d
            /\ HasUser(d, "author")
      [] t = "MESSAGE_DELETE" -> {"id", "channel_id"} \subseteq DOMAIN d
      [] OTHER -> FALSE

EventVariant(t) ==
    CASE t = "READY" -> "Ready"
      [] t = "GUILD_CREATE" -> "GuildCreate"
      [] t = "MESSAGE_CREATE" -> "MessageCreate"
      [] t = "MESSAGE_UPDATE" -> "MessageUpdate"
      [] t = "MESSAGE_DELETE" -> "MessageDelete"
      [] OTHER -> "none"

IsValidDispatch(item) ==
    /\ IsEnvelope(item)
    /\ item.op = DISPATCH
    /\ IsSome(item.t) /\ IsSome(item.d)
    /\ Unwrap(item.t) \in KnownTypes
    /\ Decodes(Unwrap(item.t), Unwrap(item.d))

IsMalformed(item) ==
    /\ item.kind = "Text"
    /\ \/ ~ IsEnvelope(item)
       \/ /\ item.op = DISPATCH
          /\ \/ ~ IsSome(item.t)
             \/ ~ IsSome(item.d)
             \/ /\ Unwrap(item.t) \in KnownTypes
                /\ ~ Decodes(Unwrap(item.t), Unwrap(item.d))

C7_MalformedFrameIsDropped ==
    [][DispatchStep =>
          LET item == Last(received')
          IN /\ IsMalformed(item) => events' = events /\ pc' = "Connected"
             /\ item.kind = "Text" /\ IsValidDispatch(item) =>
                   /\ pc' = "Connected"
                   /\ Len(events') = Len(events) + 1
                   /\ SubSeq(events', 1, Len(events)) = events
                   /\ Last(events').type = EventVariant(Unwrap(item.t))]_vars

\* the spec's MESSAGE_CREATE without author, then a valid MESSAGE_CREATE,
\* which is the run's only event
C7_Witness ==
    /\ pc = "Connected"
    /\ Len(ConnectedItems) = 2
    /\ ConnectedItems[1] =
         Text(DISPATCH, Some(1), Some("MESSAGE_CREATE"), Some(MsgNoAuthor))
    /\ ConnectedItems[2] =
         Text(DISPATCH, Some(2), Some("MESSAGE_CREATE"), Some(MsgFull))
    /\ Len(events) = 1
    /\ events[1].type = "MessageCreate"

\* ------------------------------------------------------------------------
\* C8: session_id is set once. It is None until a READY Dispatch has been
\* processed, and once it is set no later frame changes it.
\* ------------------------------------------------------------------------
ReadySeen ==
    \E i \in 1..Len(ConnectedItems) :
        /\ IsEnvelope(ConnectedItems[i])
        /\ ConnectedItems[i].op = DISPATCH
        /\ ConnectedItems[i].t = Some("READY")

C8_SessionIdSetOnce ==
    /\ [](~ ReadySeen => session_id = None)
    /\ [][IsSome(session_id) => session_id' = session_id]_vars

\* ------------------------------------------------------------------------
\* C9: in AwaitingHello a frame whose opcode is not Hello is ignored: no
\* Identify, no change of state, the wait goes on. When the stream ends
\* before a Hello, the run returns an error; as long as no Hello has
\* arrived nothing is sent and no heartbeat task exists.
\* ------------------------------------------------------------------------
C9_NonHelloIgnoredBeforeHello ==
    /\ [](~ HelloReceived =>
            /\ sent = << >>
            /\ hb_pc = "NotSpawned"
            /\ pc \in {"AwaitingHello", "ReturnedErr"})
    /\ [][HelloWaitStep /\ IsEnvelope(Last(received'))
            /\ Last(received').op # HELLO =>
              /\ pc' = "AwaitingHello"
              /\ UNCHANGED << heartbeat_interval, last_sequence, session_id,
                              events, sent, hb_pc, hb_seq, ticker, elapsed >>]_vars
    /\ [][HelloWaitStep /\ Last(received') = EndItem =>
              pc' = "ReturnedErr" /\ sent' = << >>]_vars
    /\ [][pc = "ReturnedErr" => UNCHANGED vars]_vars

\* a Dispatch carrying s and a HeartbeatAck were ignored, then the stream ended
C9_Witness ==
    /\ pc = "ReturnedErr"
    /\ Len(received) = 3
    /\ received[1] = Text(DISPATCH, Some(1), Some("READY"), Some(ReadyA))
    /\ received[2] = Text(HEARTBEAT_ACK, None, None, None)
    /\ received[3] = EndItem
    /\ sent = << >>
    /\ last_sequence = None
    /\ session_id = None

\* ------------------------------------------------------------------------
\* C10: for a valid Hello carrying heartbeat_interval = n, wait_for_hello
\* returns exactly n, and n is the period of the heartbeat loop's ticker:
\* each completed tick moves its deadline on by n.
\* ------------------------------------------------------------------------
CarriedInterval == Unwrap(received[FirstHello].d).heartbeat_interval

C10_HelloIntervalIsThePeriod ==
    /\ [](pc \in {"Identifying", "Connected", "ReturnedOk"}
            => HelloReceived /\ heartbeat_interval = Some(CarriedInterval))
    /\ [](IsSome(heartbeat_interval)
            => HelloReceived /\ heartbeat_interval = Some(CarriedInterval))
    /\ [](IsSome(ticker) => Unwrap(ticker).period = CarriedInterval)
    /\ [][HeartbeatReadStep =>
            /\ elapsed >= Unwrap(ticker).deadline
            /\ Unwrap(ticker').deadline = Unwrap(ticker).deadline + CarriedInterval]_vars

\* Hello carried 2: a second heartbeat went out once 2 units had elapsed
C10_Witness ==
    /\ HelloReceived
    /\ CarriedInterval = 2
    /\ heartbeat_interval = Some(2)
    /\ Heartbeats = 2
    /\ elapsed = 2
    /\ IsSome(ticker)
    /\ Unwrap(ticker).deadline = 4

\* ------------------------------------------------------------------------
\* C11: a Close frame, a read error or the end of the stream in the
\* Connected state ends the run: that step emits no event, and after it no
\* item is taken from the stream, no event is emitted, the run stays
\* returned (no reconnect) and no further Identify is sent.
\* ------------------------------------------------------------------------
EndsConnection(item) == item.kind \in {"Close", "Err", "End"}

C11_CloseEndsTheRun ==
    /\ [][DispatchStep /\ EndsConnection(Last(received')) =>
            pc' = "ReturnedOk" /\ events' = events]_vars
    /\ [][pc = "ReturnedOk" =>
            /\ pc' = "ReturnedOk"
            /\ received' = received
            /\ events' = events
            /\ CountOp(sent', IDENTIFY) = CountOp(sent, IDENTIFY)]_vars
    /\ [](pc = "ReturnedOk" => EndsConnection(Last(received)))

\* the run returned on a read error with room left in the stream, and the
\* heartbeat task went on sending after it
C11_Witness ==
    /\ pc = "ReturnedOk"
    /\ Len(received) = 2
    /\ Last(received) = ErrItem
    /\ Heartbeats = 2

\* ------------------------------------------------------------------------
\* C13: the plaintext credential is never written to the log sink: no
\* record of the log contains the credential string, neither as a string
\* formatted into it nor inside a serialized value.
\* ------------------------------------------------------------------------
Credential == IdentifyFrame.d.token

\* every record of the sink
LogRecords == log.main \o log.heartbeat

ContainsCredential(record) ==
    \/ "str" \in DOMAIN record /\ record.str = Credential
    \/ /\ "json" \in DOMAIN record
       /\ "d" \in DOMAIN record.json
       /\ "token" \in DOMAIN record.json.d
       /\ record.json.d.token = Credential

C13_CredentialNeverLogged ==
    \A i \in 1..Len(LogRecords) : ~ ContainsCredential(LogRecords[i])

\* ------------------------------------------------------------------------
\* C12: the heartbeat task (reader) and the dispatch loop (writer) never
\* deadlock on the last_sequence lock.  A task holds the lock only between
\* the grant and the single access that drops the guard, never at a
\* suspension point (timer tick, send, receive) and never after it ended;
\* the two tasks never both wait for the lock; while one waits the other
\* holds the lock and its next step, which releases it, is enabled; and a
\* task that was granted the lock can always take its step.
\* ------------------------------------------------------------------------
Queued(task) == \E i \in 1..Len(lock.waiters) : lock.waiters[i].task = task

C12_NoDeadlockOnLastSequence ==
    /\ ("heartbeat" \in lock.holders => hb_pc \in {"ReadWait", "ReadHeld"})
    /\ ("dispatch" \in lock.holders => pc \in {"WriteWait", "WriteHeld"})
    /\ (lock.mode = "write" => lock.holders = {"dispatch"})
    /\ (lock.mode = "read" => lock.holders = {"heartbeat"})
    /\ (lock.mode = "none" => lock.holders = {} /\ lock.waiters = << >>)
    /\ ~ (Queued("heartbeat") /\ Queued("dispatch"))
    /\ (Queued("heartbeat") =>
            hb_pc = "ReadWait" /\ "dispatch" \in lock.holders
            /\ ENABLED (LkWriteWake \/ LkWrite))
    /\ (Queued("dispatch") =>
            pc = "WriteWait" /\ "heartbeat" \in lock.holders
            /\ ENABLED (LkHbWake \/ LkHbRead))
    /\ (hb_pc \in {"ReadWait", "ReadHeld"} /\ ~ Queued("heartbeat") =>
            ENABLED (LkHbWake \/ LkHbRead))
    /\ (pc \in {"WriteWait", "WriteHeld"} /\ ~ Queued("dispatch") =>
            ENABLED (LkWriteWake \/ LkWrite))

\* the writer waited for the lock while the reader held it, was granted it
\* by the reader's release, and the heartbeat sent carries what it read
C12_Witness ==
    /\ pc = "WriteWait"
    /\ "dispatch" \in lock.holders
    /\ hb_pc = "Send"
    /\ Len(received) = 3
    /\ hb_seq = Some(1)

\* ========================================================================
\* Properties of the handshake
\* ========================================================================
AuthLast == auth_received[Len(auth_received)]
\* the item is a wire message with this tag
IsOp(item, op) == item.json /\ "op" \in DOMAIN item.obj /\ item.obj.op = op
\* the positions in auth_sent of the frames with this tag
SentOps(op) == {i \in 1..Len(auth_sent) : auth_sent[i].op = op}
AuthHeartbeats == Cardinality(SentOps("heartbeat"))
\* authenticate_with_qr has returned, with a credential or with an error
QrReturned == IsSome(qr_result)
QrOk == QrReturned /\ Unwrap(qr_result).ok
\* this step takes an item from the handshake socket in the main loop
AuthReceiveStep == auth_pc = "Loop" /\ Len(auth_received') = Len(auth_received) + 1
\* the handshake timer is due
AuthTickDue == IsSome(heartbeat_timer) /\ TickDue(Unwrap(heartbeat_timer), auth_elapsed)

\* ------------------------------------------------------------------------
\* C14: the exchange collaborator is called only after hello was received,
\* init was sent, a nonce proof was sent, a pairing code was displayed and
\* a pending_login was received; an earlier pending_login does not trigger
\* the exchange.
\* ------------------------------------------------------------------------
C14_ExchangeOnlyAfterPairing ==
    exchange_calls # << >> =>
        /\ IsOp(auth_received[1], "hello")
        /\ SentOps("init") # {}
        /\ SentOps("nonce_proof") # {}
        /\ displayed # << >>
        /\ IsOp(AuthLast, "pending_login")

\* ------------------------------------------------------------------------
\* C15: a cancel received in the main loop (that is, after init was sent)
\* ends the handshake with the cancellation error; that error is returned
\* for a cancel and for nothing else, no credential is returned or saved,
\* and the exchange collaborator has not been and is not called.
\* ------------------------------------------------------------------------
CancelError == AuthErr("Authentication was cancelled")

C15_CancelEndsHandshake ==
    /\ [][AuthReceiveStep /\ IsOp(auth_received'[Len(auth_received')], "cancel") =>
            /\ qr_result' = Some(CancelError)
            /\ auth_pc' = "Returned"
            /\ exchange_calls' = << >>]_vars
    /\ [](QrReturned /\ Unwrap(qr_result).error = CancelError.error =>
            /\ qr_result = Some(CancelError)
            /\ IsOp(AuthLast, "cancel")
            /\ SentOps("init") # {}
            /\ exchange_calls = << >>
            /\ (auth_pc = "Done" => auth_result = qr_result /\ saved = << >>))
    /\ [][QrReturned /\ Unwrap(qr_result).error = CancelError.error =>
            exchange_calls' = << >> /\ qr_result' = qr_result]_vars

\* a cancel that arrives after the nonce proof was sent, handed to the caller
C15_Witness ==
    /\ auth_pc = "Done"
    /\ auth_result = Some(CancelError)
    /\ Len(auth_received) = 3
    /\ SentOps("nonce_proof") # {}

\* ------------------------------------------------------------------------
\* C16: a credential returned by the handshake is the UTF-8 text of the
\* plaintext of the encrypted_token that the exchange returned, encrypted
\* for the public key sent in init of this attempt, and the ticket posted
\* to the exchange is the one of the pending_login received; there is no
\* other way to a credential.
\* ------------------------------------------------------------------------
C16_CredentialIsDecryptedToken ==
    QrOk =>
        /\ IsOp(AuthLast, "pending_login")
        /\ exchange_calls = << AuthLast.obj.ticket >>
        /\ IsSome(token_response)
        /\ Unwrap(token_response).kind = "Body"
        /\ "encrypted_token" \in DOMAIN Unwrap(token_response).obj
        /\ Unwrap(token_response).obj.encrypted_token.b64
        /\ LET cipher == Unwrap(token_response).obj.encrypted_token.of
           IN /\ cipher.to = PublicKey(Unwrap(private_key))
              /\ \E i \in SentOps("init") :
                    auth_sent[i].encoded_public_key = B64(cipher.to)
              /\ cipher.bytes.utf8
              /\ Unwrap(qr_result).token = cipher.bytes.text

\* the credential of the second ticket, returned after a nonce proof
C16_Witness ==
    /\ QrOk
    /\ Unwrap(qr_result).token = "credential"
    /\ exchange_calls = << "ticket-2" >>
    /\ SentOps("nonce_proof") # {}

\* ------------------------------------------------------------------------
\* C17: when the exchange fails (the call fails, the response has no
\* encrypted_token, it is no base64, it does not decrypt with this
\* attempt's key, or the plaintext is no UTF-8) authenticate_with_qr
\* returns an error, and get_or_authenticate_token returns that error and
\* passes nothing to save_token.
\* ------------------------------------------------------------------------
ExchangeFailure(resp) ==
    \/ resp.kind = "Err"
    \/ "encrypted_token" \notin DOMAIN resp.obj
    \/ ~ resp.obj.encrypted_token.b64
    \/ resp.obj.encrypted_token.of.to # PublicKey(Unwrap(private_key))
    \/ ~ resp.obj.encrypted_token.of.bytes.utf8

C17_ExchangeFailureIsAnError ==
    IsSome(token_response) /\ ExchangeFailure(Unwrap(token_response)) =>
        /\ QrReturned
        /\ ~ Unwrap(qr_result).ok
        /\ saved = << >>
        /\ (auth_pc = "Done" => auth_result = qr_result)

\* a plaintext that is no UTF-8: the error reached the caller
C17_Witness ==
    /\ auth_pc = "Done"
    /\ IsSome(token_response)
    /\ ExchangeFailure(Unwrap(token_response))
    /\ auth_result = Some(AuthErr("Invalid UTF-8 in decrypted token"))

\* ------------------------------------------------------------------------
\* C18: once the send of a handshake heartbeat has failed,
\* authenticate_with_qr has returned an error, never a credential, and no
\* further inbound message is processed (nothing more is received, sent or
\* posted to the exchange).
\* ------------------------------------------------------------------------
HeartbeatSendFailed ==
    \E i \in 1..Len(log.main) : log.main[i].msg = "Failed to send heartbeat: {}"

C18_HeartbeatFailureIsFatal ==
    /\ [](HeartbeatSendFailed => QrReturned /\ ~ Unwrap(qr_result).ok)
    /\ [][HeartbeatSendFailed =>
            /\ Len(auth_received') = Len(auth_received)
            /\ Len(auth_sent') = Len(auth_sent)
            /\ exchange_calls' = exchange_calls
            /\ qr_result' = qr_result]_vars

\* the send failed while the stream had more to give
C18_Witness ==
    /\ HeartbeatSendFailed
    /\ auth_pc = "Done"
    /\ ~ Unwrap(auth_result).ok
    /\ Len(auth_received) = 2

\* ------------------------------------------------------------------------
\* C19: whenever the handshake timer is due between the sending of init and
\* the end of the ticket exchange, the exchange in progress included, the
\* sending of a heartbeat can be the next step of the handshake.
\* ------------------------------------------------------------------------
C19_HeartbeatWheneverDue ==
    auth_pc \in {"Loop", "TokenExchange"} /\ AuthTickDue =>
        ENABLED (\E send_ok \in BOOLEAN : AuthHeartbeat(send_ok))

\* ------------------------------------------------------------------------
\* C20: the first tick of the handshake timer is discarded: every heartbeat
\* frame follows init, and the n-th heartbeat is not sent before n
\* heartbeat intervals (of the hello) have elapsed since the timer was
\* built; in particular none is sent before one full interval.
\* ------------------------------------------------------------------------
AuthPeriod == auth_received[1].obj.heartbeat_interval

C20_FirstTickDiscarded ==
    /\ \A i \in SentOps("heartbeat") : \E j \in SentOps("init") : j < i
    /\ (auth_pc \in {"LoadToken", "Validate", "Connect", "AwaitingHello", "Init"} =>
            AuthHeartbeats = 0)
    /\ (AuthHeartbeats > 0 => AuthHeartbeats * AuthPeriod <= auth_elapsed)

\* two heartbeats of period 1 after two units of time
C20_Witness ==
    /\ AuthHeartbeats = 2
    /\ auth_elapsed = 2
    /\ AuthPeriod = 1

\* the tags the handshake knows
KnownTags ==
    {"hello", "nonce_proof", "pending_remote_init", "pending_ticket",
     "pending_login", "cancel", "heartbeat_ack"}
\* the item is a wire message whose tag is none of them
IsUnknownTag(item) ==
    item.json /\ "op" \in DOMAIN item.obj /\ item.obj.op \notin KnownTags
\* this step takes an item from the handshake socket, as the first message
\* or in the main loop
AuthTakeStep ==
    /\ auth_pc \in {"AwaitingHello", "Loop"}
    /\ Len(auth_received') = Len(auth_received) + 1
AuthTaken == auth_received'[Len(auth_received')]

\* ------------------------------------------------------------------------
\* C21: in AwaitingHello and in the main loop alike, a wire message with an
\* unrecognized tag is ignored: the handshake stays where it is, sends
\* nothing, shows nothing, posts nothing and does not return.
\* ------------------------------------------------------------------------
C21_UnknownTagIgnored ==
    [][AuthTakeStep /\ IsUnknownTag(AuthTaken) =>
            /\ auth_pc' = auth_pc
            /\ auth_sent' = auth_sent
            /\ displayed' = displayed
            /\ exchange_calls' = exchange_calls
            /\ qr_result' = qr_result]_vars

\* ------------------------------------------------------------------------
\* C22: a heartbeat_ack received in the main loop is discarded: nothing is
\* sent, shown or posted to the exchange, nothing is returned or stored,
\* the timer and the key are untouched, and the loop keeps waiting.
\* ------------------------------------------------------------------------
C22_HeartbeatAckDiscarded ==
    [][AuthReceiveStep /\ IsOp(AuthTaken, "heartbeat_ack") =>
            /\ auth_pc' = "Loop"
            /\ auth_sent' = auth_sent
            /\ displayed' = displayed
            /\ exchange_calls' = exchange_calls
            /\ qr_result' = qr_result
            /\ auth_result' = auth_result
            /\ token_response' = token_response
            /\ heartbeat_timer' = heartbeat_timer
            /\ private_key' = private_key
            /\ store' = store
            /\ saved' = saved]_vars

\* an acknowledgement that arrives after the nonce proof was sent
C22_Witness ==
    /\ auth_pc = "Loop"
    /\ Len(auth_received) = 3
    /\ IsOp(AuthLast, "heartbeat_ack")
    /\ SentOps("nonce_proof") # {}
    /\ exchange_calls = << >>

\* ------------------------------------------------------------------------
\* C23: when the handshake socket ends or yields an error, as the first
\* message or in the main loop, authenticate_with_qr returns an error at
\* once; no credential is returned or saved afterwards.
\* ------------------------------------------------------------------------
TransportFailure(item) == item.kind \in {"Err", "End"}

C23_TransportFailureIsFatal ==
    /\ [][AuthTakeStep /\ TransportFailure(AuthTaken) =>
            /\ auth_pc' = "Returned"
            /\ IsSome(qr_result')
            /\ ~ Unwrap(qr_result').ok
            /\ auth_sent' = auth_sent
            /\ exchange_calls' = exchange_calls]_vars
    /\ [](auth_received # << >> /\ TransportFailure(AuthLast) =>
            /\ QrReturned
            /\ ~ Unwrap(qr_result).ok
            /\ Unwrap(qr_result).token = ""
            /\ saved = << >>
            /\ (auth_pc = "Done" => auth_result = qr_result))

\* the stream ended in the main loop, after the nonce proof was sent
C23_Witness ==
    /\ auth_pc = "Done"
    /\ Len(auth_received) = 3
    /\ AuthLast = AuthEndItem
    /\ SentOps("nonce_proof") # {}
    /\ auth_result = Some(AuthErr("WebSocket connection closed"))

\* ------------------------------------------------------------------------
\* C24: a frame that does not parse as a handshake envelope (no JSON, or no
\* op) ends the handshake with an error: nothing is sent for it and no
\* credential is returned or saved.  The session's handle_message, given a
\* text that does not parse as its envelope, yields no event and leaves
\* session_id and last_sequence alone, and the dispatch loop goes on.
\* ------------------------------------------------------------------------
\* the socket yielded a message whose text is no JSON object with an op
AuthUnparseable(item) ==
    /\ item.kind \notin {"Err", "End"}
    /\ (~ item.json \/ "op" \notin DOMAIN item.obj)

\* the texts of the session stream that do not deserialize as GatewayPayload
SessionDropsUnparseable ==
    /\ BadTexts # {}
    /\ \A item \in BadTexts :
         \A sid \in {None, Some("sessA")}, seq \in {None, Some(1)} :
            /\ ~ IsSome(ParsePayload(item))
            /\ handle_message(item, sid, seq) = Outcome(None, sid, seq)
            /\ LoopContinues(item)

C24_UnparseableFrameIsFatalInHandshake ==
    /\ [][AuthTakeStep /\ AuthUnparseable(AuthTaken) =>
            /\ auth_pc' = "Returned"
            /\ IsSome(qr_result')
            /\ ~ Unwrap(qr_result').ok
            /\ auth_sent' = auth_sent
            /\ exchange_calls' = exchange_calls]_vars
    /\ [](auth_received # << >> /\ AuthUnparseable(AuthLast) =>
            /\ QrReturned
            /\ ~ Unwrap(qr_result).ok
            /\ saved = << >>
            /\ (auth_pc = "Done" => auth_result = qr_result))
    /\ []SessionDropsUnparseable

\* a text that is no JSON arrived after the nonce proof was sent
C24_Witness ==
    /\ auth_pc = "Done"
    /\ Len(auth_received) = 3
    /\ AuthLast = AuthGarbage
    /\ SentOps("nonce_proof") # {}
    /\ auth_result = Some(AuthErr("parse error"))

\* ------------------------------------------------------------------------
\* C25: a hello, as the first message, without an unsigned integer
\* heartbeat_interval, and in the main loop a nonce_proof without
\* encrypted_nonce, a pending_remote_init without fingerprint or a
\* pending_login without ticket, end the handshake with an error: nothing
\* is sent, shown or posted for that message, and no credential is returned
\* or saved.
\* ------------------------------------------------------------------------
HelloLacksInterval(item) ==
    /\ IsOp(item, "hello")
    /\ \/ "heartbeat_interval" \notin DOMAIN item.obj
       \/ item.obj.heartbeat_interval \notin Nat

LacksRequiredField(item) ==
    \/ IsOp(item, "nonce_proof") /\ "encrypted_nonce" \notin DOMAIN item.obj
    \/ IsOp(item, "pending_remote_init") /\ "fingerprint" \notin DOMAIN item.obj
    \/ IsOp(item, "pending_login") /\ "ticket" \notin DOMAIN item.obj

\* the last item taken was such a message, in the place where it counts
TookIncomplete ==
    \/ Len(auth_received) = 1 /\ HelloLacksInterval(AuthLast)
    \/ Len(auth_received) > 1 /\ LacksRequiredField(AuthLast)

C25_MissingFieldIsFatal ==
    /\ [][\/ auth_pc = "AwaitingHello" /\ AuthTakeStep /\ HelloLacksInterval(AuthTaken)
          \/ AuthReceiveStep /\ LacksRequiredField(AuthTaken)
          => /\ auth_pc' = "Returned"
             /\ IsSome(qr_result')
             /\ ~ Unwrap(qr_result').ok
             /\ auth_sent' = auth_sent
             /\ displayed' = displayed
             /\ exchange_calls' = exchange_calls]_vars
    /\ [](TookIncomplete =>
            /\ QrReturned
            /\ ~ Unwrap(qr_result).ok
            /\ saved = << >>
            /\ (auth_pc = "Done" => auth_result = qr_result))

\* a pending_login without a ticket, after the nonce proof was sent
C25_Witness ==
    /\ auth_pc = "Done"
    /\ Len(auth_received) = 3
    /\ IsOp(AuthLast, "pending_login")
    /\ SentOps("nonce_proof") # {}
    /\ exchange_calls = << >>
    /\ auth_result = Some(AuthErr("No ticket in pending_login"))

\* ------------------------------------------------------------------------
\* C26: at most one nonce_proof frame is sent in a handshake attempt: an
\* inbound nonce_proof that arrives after the proof was sent causes no
\* second proof.
\* ------------------------------------------------------------------------
C26_AtMostOneProof == Cardinality(SentOps("nonce_proof")) <= 1

\* ------------------------------------------------------------------------
\* get_or_authenticate_token as seen in its log and its results
\* ------------------------------------------------------------------------
Logged(msg) == \E i \in 1..Len(log.main) : log.main[i].msg = msg
\* the credential the token file may hold when the program starts
StoredAtStart == "stored-credential"
FoundStored == Logged("Token found in keyring, validating...")
Accepted == Logged("Stored token is valid")
Refused == Logged("Stored token is invalid, will re-authenticate")
HandshakeRan == Logged("Starting QR code authentication...")

\* the handshake is skipped exactly when a stored credential was found and
\* accepted, and that credential is returned; in every other case the
\* handshake runs and its result is the result
SkipsExactlyWhenAccepted ==
    /\ (Accepted =>
            /\ FoundStored
            /\ ~ HandshakeRan
            /\ auth_pc = "Done"
            /\ auth_result = Some(AuthOk(StoredAtStart))
            /\ store = Some(StoredAtStart)
            /\ auth_received = << >> /\ auth_sent = << >>)
    /\ (HandshakeRan => ~ Accepted /\ (FoundStored => Refused))
    /\ (auth_pc = "Done" /\ ~ Accepted =>
            /\ HandshakeRan
            /\ QrReturned
            /\ auth_result = qr_result
            /\ Unwrap(auth_result).token # StoredAtStart)

\* ------------------------------------------------------------------------
\* C27 as stated: the handshake is skipped exactly when a stored credential
\* is accepted; a refused stored credential is deleted, the handshake runs
\* and its credential, never the refused one, is returned.
\* ------------------------------------------------------------------------
C27_RefusedCredentialIsDeleted ==
    /\ SkipsExactlyWhenAccepted
    /\ (Refused => store # Some(StoredAtStart))

\* ------------------------------------------------------------------------
\* C27 amended: as above, but of a refused stored credential only the
\* attempt to delete it is certain: until the handshake's credential is
\* saved the store is empty or still holds the refused credential, and the
\* refused credential is not returned either way.
\* ------------------------------------------------------------------------
C27_SkipsHandshakeIffStoredAccepted ==
    /\ SkipsExactlyWhenAccepted
    /\ (Refused =>
            \/ store = None
            \/ store = Some(StoredAtStart)
            \/ auth_pc = "Done" /\ QrOk /\ store = Some(Unwrap(qr_result).token))

\* the refused credential could not be deleted, the handshake returned a
\* credential and saving it failed as well
C27_Witness ==
    /\ Refused
    /\ auth_pc = "Done"
    /\ auth_result = Some(AuthOk("credential"))
    /\ store = Some(StoredAtStart)
    /\ saved = << "credential" >>

\* ------------------------------------------------------------------------
\* C28: a frame yields at most one event; an event comes only from a
\* Dispatch frame with a type tag, its variant is the one of the tag, and a
\* MessageDelete carries the id and channel_id of the frame.  Frames with
\* another opcode yield nothing, whatever t and d they carry, and nothing is
\* yielded while the run waits for Hello.
\* ------------------------------------------------------------------------
\* handle_message on frames of other opcodes that carry the t and d of a
\* valid Dispatch
ValidTypedPayloads ==
    { << "READY", ReadyA >>, << "GUILD_CREATE", GuildFull >>,
      << "MESSAGE_CREATE", MsgFull >>, << "MESSAGE_UPDATE", MsgFull >>,
      << "MESSAGE_DELETE", MsgRef >> }

NonDispatchYieldsNothing ==
    \A op \in {HEARTBEAT, RECONNECT, HELLO, HEARTBEAT_ACK}, td \in ValidTypedPayloads :
        /\ IsSome(handle_message(Text(DISPATCH, Some(1), Some(td[1]), Some(td[2])),
                                 None, None).event)
        /\ handle_message(Text(op, Some(1), Some(td[1]), Some(td[2])),
                          None, None).event = None

C28_VariantFollowsTypeTag ==
    /\ [][DispatchStep =>
            LET item == Last(received')
            IN /\ Len(events') <= Len(events) + 1
               /\ SubSeq(events', 1, Len(events)) = events
               /\ (Len(events') = Len(events) + 1 =>
                      /\ IsEnvelope(item)
                      /\ item.op = DISPATCH
                      /\ IsSome(item.t) /\ IsSome(item.d)
                      /\ Last(events').type = EventVariant(Unwrap(item.t))
                      /\ (Unwrap(item.t) = "MESSAGE_DELETE" =>
                             /\ Last(events').id = Unwrap(item.d).id
                             /\ Last(events').channel_id = Unwrap(item.d).channel_id))
               /\ (IsEnvelope(item) /\ item.op # DISPATCH => events' = events)]_vars
    /\ [][HelloWaitStep => events' = events]_vars
    /\ []NonDispatchYieldsNothing

\* a MESSAGE_UPDATE and a MESSAGE_DELETE arrived, in this order
C28_Witness ==
    /\ pc = "Connected"
    /\ Len(events) = 2
    /\ events[1].type = "MessageUpdate"
    /\ events[2] = [type |-> "MessageDelete", id |-> "m1", channel_id |-> "c1"]
    /\ Last(received).op = DISPATCH

\* ------------------------------------------------------------------------
\* C29: every frame the session client has written is an Identify or a
\* Heartbeat and has the fields op and d and no other: no s, no t.
\* ------------------------------------------------------------------------
C29_OutboundFramesHaveOnlyOpAndD ==
    \A i \in 1..Len(sent) :
        /\ DOMAIN sent[i] = {"op", "d"}
        /\ sent[i].op \in {IDENTIFY, HEARTBEAT}

\* the Identify and two heartbeats, the second one carrying a sequence
C29_Witness ==
    /\ Len(sent) = 3
    /\ sent[1] = IdentifyFrame
    /\ sent[2] = HeartbeatFrame(None)
    /\ sent[3] = HeartbeatFrame(Some(2))

\* ========================================================================
\* Properties of the delivery of events to the application state
\* ========================================================================
\* the events of the handler calls, converted, in the order of the calls
AppEvents == [i \in 1..Len(events) |-> ToAppEvent(events[i])]
\* the events update was called with, in the order of the calls
Applied == [i \in 1..Len(updates) |-> updates[i].event]
\* the message is in the list of its channel
Shows(channel_id, id) ==
    /\ IsSome(app.messages[channel_id])
    /\ \E i \in 1..Len(Unwrap(app.messages[channel_id])) :
          Unwrap(app.messages[channel_id])[i].id = id

\* ------------------------------------------------------------------------
\* C30: AppState::update is called with the events in the order in which
\* their frames arrived: the events applied so far are the first events the
\* run yielded; in particular once a MESSAGE_CREATE and the MESSAGE_DELETE
\* of the same message that followed it are both applied, the message is
\* absent.
\* ------------------------------------------------------------------------
C30_EventsAppliedInArrivalOrder ==
    /\ Len(updates) <= Len(events)
    /\ \A i \in 1..Len(updates) : Applied[i] = AppEvents[i]
    /\ (/\ Len(events) = 2
        /\ events[1].type = "MessageCreate"
        /\ events[2] = [type |-> "MessageDelete", id |-> events[1].message.id,
                        channel_id |-> events[1].message.channel_id]
        /\ Len(updates) = 2
        => ~ Shows(events[2].channel_id, events[2].id))

\* a MESSAGE_CREATE and the MESSAGE_DELETE that followed it were both applied
\* and the message is still shown
C30_DeletedMessageShown ==
    /\ Len(events) = 2
    /\ events[1].type = "MessageCreate"
    /\ events[2].type = "MessageDelete"
    /\ events[2].id = events[1].message.id
    /\ Len(updates) = 2
    /\ Shows(events[2].channel_id, events[2].id)

\* ========================================================================
\* Properties of the end of the run
\* ========================================================================
\* GatewayClient::run has returned
RunReturned == pc \in {"ReturnedOk", "ReturnedErr"}

\* ------------------------------------------------------------------------
\* C31: once GatewayClient::run has returned, the heartbeat activity has
\* ended too: from then on no frame is sent, and the heartbeat task does
\* not complete a tick and read the shared sequence cell again.
\* ------------------------------------------------------------------------
C31_HeartbeatEndsWithRun ==
    [][RunReturned => /\ sent' = sent
                      /\ ~ (hb_pc = "Tick" /\ hb_pc' = "Send")]_vars

\* ========================================================================
\* Properties of the display of the pairing code
\* ========================================================================
\* this step takes a pending_remote_init that carries a fingerprint
TakesRemoteInit ==
    /\ AuthReceiveStep
    /\ IsOp(auth_received'[Len(auth_received')], "pending_remote_init")
    /\ "fingerprint" \in DOMAIN auth_received'[Len(auth_received')].obj
\* the rendering of a pairing code has failed
RenderFailed == Logged("Failed to display QR code: {}. Showing URL instead.")
\* the textual URL was printed in place of the code
UrlPrinted == \E i \in 1..Len(displayed) : displayed[i].kind = "url"

\* ------------------------------------------------------------------------
\* C32: a failure to render the pairing code on pending_remote_init is a
\* soft failure: whether or not the rendering succeeds, the step shows one
\* thing, the code or the textual URL, made of the fixed template and the
\* fingerprint of the message, and the handshake stays in its loop with no
\* result; the textual URL is printed exactly when a rendering has failed.
\* ------------------------------------------------------------------------
C32_RenderFailureIsSoft ==
    /\ [][TakesRemoteInit =>
            /\ auth_pc' = "Loop"
            /\ qr_result' = None
            /\ Len(displayed') = Len(displayed) + 1
            /\ displayed'[Len(displayed')].url =
                  [base |-> "https://discord.com/ra/",
                   fingerprint |-> auth_received'[Len(auth_received')].obj.fingerprint]
            /\ auth_sent' = auth_sent]_vars
    /\ [](UrlPrinted <=> RenderFailed)

\* the rendering failed, the URL was printed, and the handshake went on to
\* take the pending_login and post its ticket
C32_Witness ==
    /\ UrlPrinted
    /\ RenderFailed
    /\ Len(auth_received) = 3
    /\ IsOp(auth_received[2], "pending_remote_init")
    /\ IsOp(AuthLast, "pending_login")
    /\ auth_pc = "TokenExchange"

\* ========================================================================
\* Properties of session_id
\* ========================================================================
\* ------------------------------------------------------------------------
\* C37: session_id is changed only by a READY frame for which a Ready event
\* is also emitted: a step that changes session_id appends a Ready event to
\* the calls of the handler, so a READY that is dropped because its payload
\* fails to decode leaves session_id unchanged.
\* ------------------------------------------------------------------------
C37_SessionIdChangesOnlyWithReadyEvent ==
    [][session_id' # session_id =>
          /\ Len(events') = Len(events) + 1
          /\ events'[Len(events')].type = "Ready"]_vars

\* ========================================================================
\* Properties of the result of the run
\* ========================================================================
\* the item this step takes from the stream
Taken == received'[Len(received')]
\* the items that end the receive loop
EndsLoop(item) == item.kind \in {"Close", "End", "Err"}

\* ------------------------------------------------------------------------
\* C38: GatewayClient::run returns an error only from the AwaitingHello and
\* Identifying phases; once Connected, the run returns success whether it
\* ended by a Close frame, by the end of the stream, or by a transport read
\* error, so the result does not tell a read error from a normal close.
\* ------------------------------------------------------------------------
C38_ConnectedRunReturnsOk ==
    /\ [][pc # "ReturnedErr" /\ pc' = "ReturnedErr" =>
            pc \in {"AwaitingHello", "Identifying"}]_vars
    /\ [][pc = "Connected" /\ Len(received') = Len(received) + 1 /\ EndsLoop(Taken) =>
            pc' = "ReturnedOk"]_vars
    /\ [][pc = "Connected" /\ pc' # "Connected" =>
            /\ pc' = "ReturnedOk"
            /\ Len(received') = Len(received) + 1
            /\ EndsLoop(Taken)]_vars

\* the run returned success after a transport read error in Connected
C38_Witness ==
    /\ pc = "ReturnedOk"
    /\ received[Len(received)].kind = "Err"
    /\ sent # << >>
    /\ Logged("WebSocket error: {}")

\* ========================================================================
\* Properties of the returned credential
\* ========================================================================
\* the response whose token decrypts, with the key of this attempt, to the
\* empty string
EmptyTokenResponse ==
    ExchangeBody([encrypted_token |->
        B64(Encrypt([public_of |-> Unwrap(private_key)],
                    [utf8 |-> TRUE, text |-> ""]))])

\* ------------------------------------------------------------------------
\* C39: authenticate_with_qr never returns an empty credential: every Ok
\* result carries a non-empty string, and when the token of the response
\* decrypts to the empty string the handshake returns the error "Failed to
\* get token"; get_or_authenticate_token then returns that error and saves
\* nothing.
\* ------------------------------------------------------------------------
C39_CredentialIsNeverEmpty ==
    /\ QrOk => Unwrap(qr_result).token # ""
    /\ IsSome(private_key) /\ token_response = Some(EmptyTokenResponse) =>
          /\ qr_result = Some(AuthErr("Failed to get token"))
          /\ saved = << >>
          /\ auth_pc = "Done" => auth_result = qr_result

\* the exchange answered with a token that decrypts to the empty string and
\* the caller got the error
C39_Witness ==
    /\ IsSome(private_key)
    /\ token_response = Some(EmptyTokenResponse)
    /\ exchange_calls # << >>
    /\ auth_pc = "Done"
    /\ auth_result = Some(AuthErr("Failed to get token"))

\* ========================================================================
\* Properties of the keys
\* ========================================================================
\* this step is the key task reading a q
ReadsQ == KeyTask(KeyEvent(Char("q"), FALSE))
\* text is being typed: the editing mode or the search mode
Typing == app.input_mode = "Editing" \/ app.search_mode

\* ------------------------------------------------------------------------
\* C33: pressing q quits the application only when the input mode is
\* Normal: a q read while text is being typed (Editing mode or search mode)
\* is sent to AppState as a key press and the key task goes on reading, and
\* the main loop does not end while text is being typed.
\* ------------------------------------------------------------------------
C33_QuitOnlyInNormalMode ==
    /\ [][ReadsQ /\ Typing =>
            /\ event_rx' = Append(event_rx, KeyPress(Char("q")))
            /\ ui_pc' = "Reading"]_vars
    /\ [][main_pc = "Running" /\ main_pc' = "Exited" => ~ Typing]_vars

\* the main loop is about to hand a key press to update
KeyPressNext ==
    main_pc = "Running" /\ event_rx # << >> /\ Head(event_rx).type = "KeyPress"

IssuesSend(key) ==
    /\ updates' # << >>
    /\ updates'[1].command.type = "SendMessage"
    /\ UpdateKey(key)

\* ------------------------------------------------------------------------
\* C40: AppState issues Command::SendMessage only on Enter in Editing mode
\* with a non-empty input buffer and a selected channel; the command carries
\* exactly the content of the buffer and the id of the selected channel, and
\* the input buffer is empty afterwards.
\* ------------------------------------------------------------------------
C40_SendMessageOnlyOnEnter ==
    [][\A key \in KeyCodes : IssuesSend(key) =>
          /\ key = Key("Enter", "")
          /\ ~ app.search_mode
          /\ app.input_mode = "Editing"
          /\ app.input_buffer # << >>
          /\ IsSome(app.selected_channel)
          /\ updates'[1].command.content = app.input_buffer
          /\ updates'[1].command.channel_id = Unwrap(app.selected_channel)
          /\ app'.input_buffer = << >>
          /\ app'.input_mode = "Editing"
          /\ app'.selected_channel = app.selected_channel]_vars

\* the text "jk" was sent to the selected channel c1 and the buffer is empty
C40_Witness ==
    /\ updates = << [command |-> SendMessage("c1", << "j", "k" >>)] >>
    /\ app.input_mode = "Editing"
    /\ app.input_buffer = << >>
    /\ app.selected_channel = Some("c1")

\* ========================================================================
\* Properties of the stored message lists
\* ========================================================================
\* the stored list of a channel (empty when the channel has no entry)
Stored(c) == IF IsSome(app.messages[c]) THEN Unwrap(app.messages[c]) ELSE << >>
\* the position of a message among the messages of the server: a later
\* position is a newer message
ServerPos(id) == CHOOSE n \in 1..Len(server) : server[n].id = id

\* ------------------------------------------------------------------------
\* C35: after any interleaving of gateway MessageCreate events and REST
\* MessagesLoaded results for a channel (a reload triggered by MessageSent
\* included), the stored message list of the channel contains each message
\* id at most once.
\* ------------------------------------------------------------------------
C35_NoDuplicateMessages ==
    \A c \in ChannelIds :
        \A i, j \in 1..Len(Stored(c)) :
            Stored(c)[i].id = Stored(c)[j].id => i = j

\* ------------------------------------------------------------------------
\* C36: the stored message list of a channel is always in newest-first
\* order, the order the renderer assumes when it reverses the list: an
\* earlier element of the list is a newer message than a later one.
\* ------------------------------------------------------------------------
C36_StoredListIsNewestFirst ==
    \A c \in ChannelIds :
        \A i, j \in 1..Len(Stored(c)) :
            i < j => ServerPos(Stored(c)[i].id) > ServerPos(Stored(c)[j].id)

====
